---- MODULE Spec2Model ----
(***************************************************************************)
(* A state-machine model of the personal-finance-tracker web application:  *)
(* request authentication (middleware + requireAuth), the transaction      *)
(* form, the DatabaseProvider facade over the two backends, the paginated  *)
(* transactions table and the relational-to-document migration.            *)
(*                                                                         *)
(* Each subsystem has its own specification (SpecAuth, SpecForm, ...) over *)
(* its own variables; the variables of the other subsystems are left       *)
(* unchanged.  Strings are TLA+ strings; Len and SubSeq are used for the   *)
(* character-level operations of the code (startsWith, parsing).           *)
(***************************************************************************)
EXTENDS Integers, Sequences, FiniteSets, TLC

VARIABLES
    \* ---- request authentication (src/middleware.ts, requireAuth, pages)
    session,        \* TRUE iff the request cookies carry a Supabase session
    path,           \* req.nextUrl.pathname of the request in flight
    authPc,         \* "idle" | "middleware" | "redirected" | "page" | "done"
    response,       \* what middleware returned for the request in flight
    lookup,         \* outcome of the latest middleware session lookup, or "n/a"
    redirectedBy,   \* who issued the redirect that led to this request
    rendered        \* the page function whose JSX was sent, or "none"/"error"

authVars == <<session, path, authPc, response, lookup, redirectedBy, rendered>>

VARIABLES
    databaseType,   \* DatabaseProvider.databaseType: "supabase" | "firestore"
    categories,     \* TransactionForm.categories: the loaded category list
    values,         \* the form values of the latest submission
    fieldErrors,    \* messages of the zod resolver for the latest submission
    passedOn,       \* the argument handed to addTransaction (line 136), or NoPayload
    error,          \* TransactionForm.error ("" is null)
    toast,          \* title of the latest toast ("" none)
    isSubmitting,   \* TransactionForm.isSubmitting
    sbTransactions, \* rows of the relational table `transactions`
    fsTransactions  \* documents of the document-store collection `transactions`

formVars == <<databaseType, categories, values, fieldErrors, passedOn, error,
              toast, isSubmitting, sbTransactions, fsTransactions>>

VARIABLES
    user,           \* useAuth().user is non-null
    isLoading,      \* DatabaseProvider.isLoading
    call            \* the facade operation in flight, or the last one settled

facadeVars == <<user, isLoading, call>>

VARIABLES
    txDocs,         \* the user's documents in the "transactions" collection
    currentPage,    \* TransactionsTable.currentPage
    lastDoc,        \* TransactionsTable.lastDoc (the pagination cursor)
    filters,        \* TransactionsTable.filters
    transactions,   \* TransactionsTable.transactions (the rows displayed)
    totalPages,     \* TransactionsTable.totalPages
    tableLoading,   \* TransactionsTable.isLoading
    pending,        \* fetchTransactions calls in flight, each with its closure
    completed,      \* the fetchTransactions call that finished last
    forward,        \* Next presses since page 1 was shown (-1: not a forward run)
    changes,        \* deletes and edits made so far
    failures        \* backend requests of the table that have failed so far

tableVars == <<txDocs, currentPage, lastDoc, filters, transactions, totalPages,
               tableLoading, pending, completed, forward, changes, failures>>

VARIABLES
    migrationPc,        \* where startMigration stands
    isMigrating,        \* DatabaseMigration.isMigrating
    progress,           \* DatabaseMigration.progress
    step,               \* DatabaseMigration.step
    migrationResults,   \* DatabaseMigration.migrationResults
    errors,             \* startMigration's errors
    migrated,           \* startMigration's profileMigrated and the three counts
    fsUsers,            \* document ids in the "users" collection
    fsCategories,       \* documents in the "categories" collection
    fsTxs,              \* documents in the "transactions" collection written here
    fsBudgetGoals,      \* documents in the "budgetGoals" collection
    autoIds,            \* auto-generated document ids handed out so far
    runs                \* startMigration calls so far

migrationVars == <<migrationPc, isMigrating, progress, step, migrationResults, errors,
                   migrated, fsUsers, fsCategories, fsTxs, fsBudgetGoals, autoIds,
                   runs>>

VARIABLES
    summaryTransactions,  \* the transactions a summary is computed over
    facadeSummary,        \* what DatabaseProvider.getFinancialSummary returned
    serviceSummary        \* what transactionService.getTransactionSummary returned

summaryVars == <<summaryTransactions, facadeSummary, serviceSummary>>

VARIABLES
    stored,         \* localStorage["preferredDatabase"] ("none": no item)
    pendingUpdate,  \* a setDatabaseType call of the load effect not yet rendered
    savedFor,       \* the databaseType of the render whose save effect ran last
    preferred,      \* the type the user chose last, and whether it has been saved
    reloads         \* page reloads so far

prefVars == <<stored, pendingUpdate, savedFor, preferred, reloads>>

VARIABLES
    dialogCategories,   \* EditTransactionDialog.categories
    categoriesFetch,    \* the dialog's fetchCategories: "idle", "loading", "loaded", "failed"
    dialogTransaction,  \* the transaction prop of the dialog
    dialogValues,       \* the dialog's form values
    updated,            \* the last transactionService.updateTransaction call: its
                        \* arguments and the state of the category list then
    dialogToast         \* title of the dialog's latest toast

dialogVars == <<dialogCategories, categoriesFetch, dialogTransaction, dialogValues,
                updated, dialogToast>>

\* CSVImport: the rows still to process, the outcome of each processed row,
\* the two counters, the results shown and the toast.
VARIABLES csvPc, csvQueue, csvLog, successCount, failedCount, importResults,
          csvToast

csvVars == <<csvPc, csvQueue, csvLog, successCount, failedCount, importResults,
             csvToast>>

\* The dashboard and budget widgets: the clock, the stored transactions and
\* what the widget that fetched last computed.
VARIABLES
    now,        \* new Date() at the time of the fetch
    ledger,     \* the transactions table
    shown       \* the widget that fetched last, its date range, the rows its
                \* query returned and the amount it computed from them

budgetVars == <<now, ledger, shown>>

\* useBudgetAlerts: the stored transactions, the hook's state and the
\* progress of one checkBudgetAlerts run.
VARIABLES
    alertTxs,       \* the transactions table read by the hook
    alerts,         \* useBudgetAlerts.alerts
    alertPc,        \* "unmounted", "idle", "goals" (the goals query is out), "loop"
    alertQueue,     \* the goals the loop has still to visit
    newAlerts,      \* checkBudgetAlerts.newAlerts
    alertToasts,    \* the toasts raised by the latest run, in order
    alertRun        \* the latest run: its outcome, the goals in the order the
                    \* query returned them, the goals skipped, alerts before it

alertVars == <<alertTxs, alerts, alertPc, alertQueue, newAlerts, alertToasts, alertRun>>

\* EnhancedAIInsights: the transactions of the two months, and the trends
\* and the unusual spending that generateInsights set.
VARIABLES
    insightPc,          \* "unmounted", "mounted", "generated"
    currentMonth,       \* what getTransactions returns for the current month
    previousMonth,      \* what getTransactions returns for the previous month
    insightTrends,      \* EnhancedAIInsights.trends
    unusualSpending     \* summary.unusualSpending

insightVars == <<insightPc, currentMonth, previousMonth, insightTrends, unusualSpending>>

\* What the actions of one subsystem leave unchanged.
notAuth == <<formVars, facadeVars, tableVars, migrationVars, summaryVars, prefVars,
             dialogVars, csvVars, budgetVars, alertVars, insightVars>>
notForm == <<authVars, facadeVars, tableVars, migrationVars, summaryVars, prefVars,
             dialogVars, csvVars, budgetVars, alertVars, insightVars>>
notFacade == <<authVars, categories, values, fieldErrors, passedOn, error, toast,
               isSubmitting, sbTransactions, fsTransactions, tableVars, migrationVars,
               summaryVars, prefVars, dialogVars, csvVars, budgetVars, alertVars,
               insightVars>>
notTable == <<authVars, facadeVars, databaseType, categories, values, fieldErrors,
              passedOn, error, isSubmitting, sbTransactions, fsTransactions,
              migrationVars, summaryVars, prefVars, dialogVars, csvVars, budgetVars,
              alertVars, insightVars>>
notMigration == <<authVars, facadeVars, tableVars, databaseType, categories, values,
                  fieldErrors, passedOn, error, isSubmitting, sbTransactions,
                  fsTransactions, summaryVars, prefVars, dialogVars, csvVars,
                  budgetVars, alertVars, insightVars>>
notSummary == <<authVars, formVars, facadeVars, tableVars, migrationVars, prefVars,
                dialogVars, csvVars, budgetVars, alertVars, insightVars>>
notPref == <<authVars, facadeVars, tableVars, migrationVars, categories, values,
             fieldErrors, passedOn, error, isSubmitting, sbTransactions,
             fsTransactions, summaryVars, dialogVars, csvVars, budgetVars, alertVars,
             insightVars>>
notDialog == <<authVars, formVars, facadeVars, tableVars, migrationVars, summaryVars,
               prefVars, csvVars, budgetVars, alertVars, insightVars>>
notCsv == <<authVars, formVars, facadeVars, tableVars, migrationVars, summaryVars,
            prefVars, dialogVars, budgetVars, alertVars, insightVars>>
notBudget == <<authVars, formVars, facadeVars, tableVars, migrationVars, summaryVars,
               prefVars, dialogVars, csvVars, alertVars, insightVars>>
notAlert == <<authVars, formVars, facadeVars, tableVars, migrationVars, summaryVars,
              prefVars, dialogVars, csvVars, budgetVars, insightVars>>
notInsight == <<authVars, formVars, facadeVars, tableVars, migrationVars, summaryVars,
                prefVars, dialogVars, csvVars, budgetVars, alertVars>>

----------------------------------------------------------------------------
(***************************************************************************)
(* Request authentication                                                  *)
(***************************************************************************)

\* String.prototype.startsWith
StartsWith(s, prefix) ==
    /\ Len(s) >= Len(prefix)
    /\ SubSeq(s, 1, Len(prefix)) = prefix

\* The pathnames a browser requests in the model.
Paths ==
    { "/", "/dashboard", "/dashboard/reports", "/transactions", "/settings",
      "/budget", "/budget/goals", "/import", "/auth/login", "/auth/register",
      "/auth/verify" }

\* config.matcher: "/x/:path*" matches /x and everything below it; the two
\* auth routes match exactly.
MatcherMatches(p) ==
    \/ \E base \in {"/dashboard", "/transactions", "/settings", "/budget"} :
          p = base \/ StartsWith(p, base \o "/")
    \/ p \in {"/auth/login", "/auth/register"}

isProtectedRouteNoBudget(p) ==
    \/ StartsWith(p, "/dashboard")
    \/ StartsWith(p, "/transactions")
    \/ StartsWith(p, "/settings")

isProtectedRoute(p) ==
    \/ StartsWith(p, "/dashboard")
    \/ StartsWith(p, "/transactions")
    \/ StartsWith(p, "/settings")
    \/ StartsWith(p, "/budget")

isAuthRoute(p) ==
    StartsWith(p, "/auth/login") \/ StartsWith(p, "/auth/register")

NoResponse == [kind |-> "none", location |-> "", redirectedFrom |-> ""]
PassThrough == [kind |-> "next", location |-> "", redirectedFrom |-> ""]
RedirectTo(loc, from) ==
    [kind |-> "redirect", location |-> loc, redirectedFrom |-> from]

\* supabase.auth.getSession(): the session the cookies carry, or a throw.
LookupOutcomes == {IF session THEN "session" ELSE "none", "throws"}

\* middleware(req): outcome is what the session lookup did.
middleware(p, outcome) ==
    IF outcome = "throws"
    THEN PassThrough                       \* catch: NextResponse.next()
    ELSE IF isProtectedRoute(p) /\ outcome = "none"
         THEN RedirectTo("/auth/login", p)
         ELSE IF isAuthRoute(p) /\ outcome = "session"
              THEN RedirectTo("/dashboard", "")
              ELSE PassThrough

\* The page function the app router runs for a pathname.
PageOf(p) ==
    CASE p = "/dashboard"    -> "DashboardPage"
      [] p = "/transactions" -> "TransactionsPage"
      [] p = "/settings"     -> "SettingsPage"
      [] p = "/import"       -> "ImportPage"
      [] p = "/budget"       -> "BudgetPage"
      [] OTHER               -> "OtherPage"

\* The pages whose first statement is `await requireAuth()`.
CallsRequireAuth(page) ==
    page \in {"DashboardPage", "TransactionsPage", "SettingsPage", "ImportPage"}

\* requireAuth(): "redirect" when there is no session, else the session;
\* a throwing lookup propagates.
requireAuth(outcome) ==
    CASE outcome = "throws" -> "error"
      [] outcome = "none"   -> "redirect"
      [] OTHER              -> "session"

\* withErrorHandling(fn, fallback): fn's value, or the fallback when it throws.
withErrorHandling(fnThrows, value, fallback) ==
    IF fnThrows THEN fallback ELSE value

AuthInit ==
    /\ session = FALSE
    /\ path = "/"
    /\ authPc = "idle"
    /\ response = NoResponse
    /\ lookup = "n/a"
    /\ redirectedBy = "none"
    /\ rendered = "none"

\* AuthProvider.signIn / signOut between navigations.
SignIn ==
    /\ authPc = "idle" /\ ~session
    /\ session' = TRUE
    /\ UNCHANGED <<path, authPc, response, lookup, redirectedBy, rendered>>
    /\ UNCHANGED notAuth

SignOut ==
    /\ authPc = "idle" /\ session
    /\ session' = FALSE
    /\ UNCHANGED <<path, authPc, response, lookup, redirectedBy, rendered>>
    /\ UNCHANGED notAuth

\* The browser requests a pathname.
Navigate ==
    /\ authPc = "idle"
    /\ \E p \in Paths :
          /\ path' = p
          /\ authPc' = IF MatcherMatches(p) THEN "middleware" ELSE "page"
    /\ response' = NoResponse
    /\ lookup' = "n/a"
    /\ redirectedBy' = "none"
    /\ rendered' = "none"
    /\ UNCHANGED session
    /\ UNCHANGED notAuth

\* middleware runs for a request the matcher selects.
RunMiddleware ==
    /\ authPc = "middleware"
    /\ \E outcome \in LookupOutcomes :
          /\ response' = middleware(path, outcome)
          /\ lookup' = outcome
          /\ authPc' = IF middleware(path, outcome).kind = "redirect"
                       THEN "redirected" ELSE "page"
    /\ UNCHANGED <<session, path, redirectedBy, rendered>>
    /\ UNCHANGED notAuth

\* The browser follows a redirect issued by middleware or by requireAuth.
FollowRedirect ==
    /\ authPc = "redirected"
    /\ path' = response.location
    /\ redirectedBy' = IF rendered = "redirect" THEN "requireAuth" ELSE "middleware"
    /\ authPc' = IF MatcherMatches(response.location) THEN "middleware" ELSE "page"
    /\ response' = NoResponse
    /\ rendered' = "none"
    /\ lookup' = "n/a"
    /\ UNCHANGED session
    /\ UNCHANGED notAuth

\* The page function runs: requireAuth first where the page calls it.
RenderPage ==
    /\ authPc = "page"
    /\ LET page == PageOf(path) IN
       IF CallsRequireAuth(page)
       THEN \E outcome \in LookupOutcomes :
              LET r == requireAuth(outcome) IN
              /\ rendered' = CASE r = "session"  -> page
                               [] r = "redirect" -> "redirect"
                               [] OTHER          -> "error"
              /\ authPc' = IF r = "redirect" THEN "redirected" ELSE "done"
              /\ response' = IF r = "redirect"
                             THEN RedirectTo("/auth/login", "")
                             ELSE response
       ELSE /\ rendered' = IF page = "BudgetPage"
                           THEN withErrorHandling(FALSE, page, "BudgetFallback")
                           ELSE page
            /\ authPc' = "done"
            /\ UNCHANGED response
    /\ UNCHANGED <<session, path, lookup, redirectedBy>>
    /\ UNCHANGED notAuth

\* The navigation is over.
FinishNavigation ==
    /\ authPc = "done"
    /\ authPc' = "idle"
    /\ rendered' = "none"
    /\ response' = NoResponse
    /\ UNCHANGED <<session, path, lookup, redirectedBy>>
    /\ UNCHANGED notAuth

AuthNext ==
    \/ SignIn
    \/ SignOut
    \/ Navigate
    \/ RunMiddleware
    \/ FollowRedirect
    \/ RenderPage
    \/ FinishNavigation

----------------------------------------------------------------------------
(***************************************************************************)
(* Claims about request authentication                                     *)
(***************************************************************************)

DashboardPages ==
    {"DashboardPage", "TransactionsPage", "BudgetPage", "ImportPage", "SettingsPage"}

\* C1: no dashboard page (/dashboard, /transactions, /budget, /import,
\* /settings) is rendered for a request that has no session, whatever the
\* session lookups did (a throwing lookup inside middleware included).
C1_NoPageWithoutSession ==
    ~(rendered \in DashboardPages /\ ~session)

\* C2: when the session lookup succeeds, middleware's response is the stated
\* function of (path, session): protected prefix without session -> redirect
\* to /auth/login carrying redirectedFrom = path; auth prefix with session ->
\* redirect to /dashboard; anything else -> pass-through.  A request reached by
\* following a middleware redirect gets the pass-through response.
C2_MiddlewareResponse ==
    LET sess == (lookup = "session")
        prot == \E pre \in {"/dashboard", "/transactions", "/settings", "/budget"} :
                    StartsWith(path, pre)
        auth == \E pre \in {"/auth/login", "/auth/register"} : StartsWith(path, pre)
    IN  (response.kind # "none" /\ rendered # "redirect" /\ lookup \in {"session", "none"})
        => /\ (prot /\ ~sess) =>
                response = [kind |-> "redirect", location |-> "/auth/login",
                            redirectedFrom |-> path]
           /\ (auth /\ sess) =>
                (response.kind = "redirect" /\ response.location = "/dashboard")
           /\ (~(prot /\ ~sess) /\ ~(auth /\ sess)) => response.kind = "next"
           /\ (redirectedBy = "middleware") => response.kind = "next"

\* C2 witness: a request that was reached through a middleware redirect has
\* been answered, after a successful lookup, with the pass-through response.
C2_Witness ==
    /\ redirectedBy = "middleware"
    /\ lookup \in {"session", "none"}
    /\ response.kind = "next"

----------------------------------------------------------------------------
(***************************************************************************)
(* The transaction form (TransactionForm) and the stores it writes to      *)
(***************************************************************************)
\* ---- JavaScript number conversions over decimal integer strings ----------
\* Amounts are whole currency units: fractional and exponent notations are
\* left out of the input alphabet.

Digits == "0123456789"
IsDigit(c) == \E d \in 0..9 : SubSeq(Digits, d + 1, d + 1) = c
DigitVal(c) == CHOOSE d \in 0..9 : SubSeq(Digits, d + 1, d + 1) = c

RECURSIVE AllDigits(_)
AllDigits(s) ==
    IF s = "" THEN TRUE
    ELSE IsDigit(SubSeq(s, 1, 1)) /\ AllDigits(SubSeq(s, 2, Len(s)))

\* The longest prefix of s made of digits.
RECURSIVE DigitPrefix(_)
DigitPrefix(s) ==
    IF s = "" \/ ~IsDigit(SubSeq(s, 1, 1)) THEN ""
    ELSE SubSeq(s, 1, 1) \o DigitPrefix(SubSeq(s, 2, Len(s)))

RECURSIVE DigitsValue(_)
DigitsValue(s) ==
    IF s = "" THEN 0
    ELSE DigitsValue(SubSeq(s, 1, Len(s) - 1)) * 10 + DigitVal(SubSeq(s, Len(s), Len(s)))

HasSign(s) == Len(s) >= 1 /\ SubSeq(s, 1, 1) = "-"
Unsigned(s) == IF HasSign(s) THEN SubSeq(s, 2, Len(s)) ELSE s
Abs(n) == IF n < 0 THEN -n ELSE n

\* Number(s): "" is 0; the whole string must be a numeral, else NaN.
NumberIsNaN(s) == s # "" /\ (Unsigned(s) = "" \/ ~AllDigits(Unsigned(s)))
Number(s) ==
    IF s = "" THEN 0
    ELSE IF HasSign(s) THEN -DigitsValue(Unsigned(s)) ELSE DigitsValue(Unsigned(s))

\* Number.parseFloat(s) / Number.parseInt(s): the longest numeric prefix; NaN
\* when there is none.
parseFloatIsNaN(s) == DigitPrefix(Unsigned(s)) = ""
parseFloat(s) ==
    IF HasSign(s) THEN -DigitsValue(DigitPrefix(Unsigned(s)))
    ELSE DigitsValue(DigitPrefix(Unsigned(s)))

\* Number.prototype.toString for an integer.
RECURSIVE NatToString(_)
NatToString(n) ==
    IF n < 10 THEN SubSeq(Digits, n + 1, n + 1)
    ELSE NatToString(n \div 10) \o SubSeq(Digits, (n % 10) + 1, (n % 10) + 1)
IntToString(n) == IF n < 0 THEN "-" \o NatToString(-n) ELSE NatToString(n)

\* s repeated ten times.
Times10(s) == s \o s \o s \o s \o s \o s \o s \o s \o s \o s

\* ---- formSchema -----------------------------------------------------------
TitleMinLen == 2
TitleMaxLen == 100
NotesMaxLen == 500
AmountLimit == 1000000

\* What an <input type="number"> can hold: "" or a valid number.
AmountInputs ==
    { "", "0", "5", "-5", "1000000", "1000001", "-2000000" }

TitleInputs == { "a", "Rent", Times10(Times10("x")) \o "x" }
NotesInputs == { "", Times10(Times10("nnnnn")) \o "n" }

\* category_id is undefined until a SelectItem is chosen.
Undefined == "undefined"
CategoryIdInputs == { Undefined, "1", "2", "c1", "c2" }

\* The messages the resolver reports; the submit handler runs only when the
\* set is empty.
Validate(v) ==
    (IF Len(v.title) < TitleMinLen
     THEN {"Title must be at least 2 characters."} ELSE {})
    \cup (IF Len(v.title) > TitleMaxLen
          THEN {"Title cannot exceed 100 characters."} ELSE {})
    \cup (IF NumberIsNaN(v.amount) THEN {"Amount must be a number."}
          ELSE IF Number(v.amount) = 0 THEN {"Amount cannot be zero."}
          ELSE IF ~(Number(v.amount) <= AmountLimit)
               THEN {"Amount cannot exceed 1,000,000."} ELSE {})
    \cup (IF v.category_id = Undefined
          THEN {"Please select a category."} ELSE {})
    \cup (IF Len(v.notes) > NotesMaxLen
          THEN {"Notes cannot exceed 500 characters."} ELSE {})

\* ---- categories -----------------------------------------------------------
\* A category id is a number in the relational store and a string in the
\* document store.
NumId(n) == [isNum |-> TRUE, n |-> n, s |-> ""]
StrId(str) == [isNum |-> FALSE, n |-> 0, s |-> str]

SupabaseCategories ==
    { [id |-> NumId(1), type |-> "income"], [id |-> NumId(2), type |-> "expense"] }
FirestoreCategories ==
    { [id |-> StrId("c1"), type |-> "income"], [id |-> StrId("c2"), type |-> "expense"] }

\* categories.find(cat => cat.id === v || cat.id === Number(v) || cat.id === String(v))
MatchesCategoryId(cat, v) ==
    \/ (~cat.id.isNum /\ cat.id.s = v)
    \/ (cat.id.isNum /\ ~NumberIsNaN(v) /\ cat.id.n = Number(v))

FindCategory(cats, v) == { cat \in cats : MatchesCategoryId(cat, v) }

\* ---- onSubmit -------------------------------------------------------------
NoPayload == [present |-> FALSE, db |-> "", title |-> "", amount |-> 0,
              category |-> NumId(0), notes |-> ""]

\* "Adjust amount sign based on category type" (lines 107-113).
AdjustSignNoAbs(amount, type) ==
    IF type = "expense" THEN -amount ELSE amount

AdjustSign(amount, type) ==
    IF type = "expense" THEN -Abs(amount) ELSE Abs(amount)

\* transactionData (lines 115-134).
TransactionData(db, v, amount) ==
    [present |-> TRUE, db |-> db, title |-> v.title, amount |-> amount,
     category |-> IF db = "firestore" THEN StrId(v.category_id)
                  ELSE NumId(parseFloat(v.category_id)),
     notes |-> v.notes]

\* The members of the object DatabaseProvider hands to its consumers.
ContextValueKeys ==
    { "databaseType", "setDatabaseType", "isLoading",
      "getTransactions", "getTransaction", "createTransaction",
      "updateTransaction", "deleteTransaction",
      "getCategories", "getCategory", "createCategory", "updateCategory",
      "deleteCategory",
      "getBudgetGoals", "getBudgetGoal", "createBudgetGoal", "updateBudgetGoal",
      "deleteBudgetGoal",
      "getUserProfile", "updateUserProfile", "getFinancialSummary", "migrateData" }

\* The member TransactionForm destructures and awaits at line 136.
FormWriteMember == "addTransaction"

FormInit ==
    /\ databaseType = "supabase"
    /\ categories = {}
    /\ values = [title |-> "", amount |-> "", category_id |-> Undefined, notes |-> ""]
    /\ fieldErrors = {}
    /\ passedOn = NoPayload
    /\ error = ""
    /\ toast = ""
    /\ isSubmitting = FALSE
    /\ sbTransactions = {}
    /\ fsTransactions = {}

\* DatabaseSettings.handleDatabaseChange: setDatabaseType and its toast.
SetDatabaseType ==
    /\ \E t \in {"supabase", "firestore"} :
          /\ t # databaseType
          /\ databaseType' = t
    /\ toast' = "Database changed"
    /\ UNCHANGED <<categories, values, fieldErrors, passedOn, error,
                   isSubmitting, sbTransactions, fsTransactions>>
    /\ UNCHANGED notForm

\* The effect of TransactionForm: getCategories() of the facade never rejects;
\* it resolves to the backend's list, or to [] after a failure.
FetchCategories ==
    /\ \E ok \in BOOLEAN :
          categories' = IF ~ok THEN {}
                        ELSE IF databaseType = "supabase" THEN SupabaseCategories
                        ELSE FirestoreCategories
    /\ UNCHANGED <<databaseType, values, fieldErrors, passedOn, error, toast,
                   isSubmitting, sbTransactions, fsTransactions>>
    /\ UNCHANGED notForm

\* form.handleSubmit(onSubmit): the resolver, then onSubmit to its finally.
SubmitForm ==
    \E t \in TitleInputs, a \in AmountInputs, c \in CategoryIdInputs, n \in NotesInputs :
      LET v == [title |-> t, amount |-> a, category_id |-> c, notes |-> n]
          found == FindCategory(categories, c)
          selectedCategory == CHOOSE cat \in found : TRUE
          amount == AdjustSign(parseFloat(a), selectedCategory.type)
          data == TransactionData(databaseType, v, amount)
      IN
      /\ values' = v
      /\ fieldErrors' = Validate(v)
      /\ isSubmitting' = FALSE
      /\ IF Validate(v) # {}
         THEN \* the resolver rejects: onSubmit is not called
              /\ passedOn' = NoPayload
              /\ toast' = ""
              /\ UNCHANGED <<error, sbTransactions, fsTransactions>>
         ELSE IF found = {}
         THEN /\ passedOn' = NoPayload
              /\ error' = "Selected category not found. Please try again."
              /\ toast' = "Error"
              /\ UNCHANGED <<sbTransactions, fsTransactions>>
         ELSE IF FormWriteMember \notin ContextValueKeys
         THEN \* calling an undefined member throws a TypeError, caught at 150
              /\ passedOn' = data
              /\ error' = "addTransaction is not a function"
              /\ toast' = "Error"
              /\ UNCHANGED <<sbTransactions, fsTransactions>>
         ELSE /\ passedOn' = data
              /\ error' = ""
              /\ toast' = "Transaction added"
              /\ IF databaseType = "supabase"
                 THEN /\ sbTransactions' = sbTransactions \cup {data}
                      /\ UNCHANGED fsTransactions
                 ELSE /\ fsTransactions' = fsTransactions \cup {data}
                      /\ UNCHANGED sbTransactions
      /\ UNCHANGED <<databaseType, categories>>
      /\ UNCHANGED notForm

FormNext ==
    \/ SetDatabaseType
    \/ FetchCategories
    \/ SubmitForm

----------------------------------------------------------------------------
(***************************************************************************)
(* The DatabaseProvider facade over the two backends                       *)
(***************************************************************************)

\* The operations of DatabaseContextType.
FacadeOps == ContextValueKeys \ {"databaseType", "setDatabaseType", "isLoading"}

\* The reads that answer [] without a user and after a failure.
ListReads == {"getTransactions", "getCategories", "getBudgetGoals"}

Method(name, params, optional) ==
    [name |-> name, params |-> params, optional |-> optional]

\* What src/lib/firestore-service.ts exports: per service, its methods with
\* their parameters; `optional` counts the trailing optional parameters.
FirestoreService ==
    [ transactionService |->
        { Method("getTransactions", <<"userId", "options">>, 1),
          Method("getTransaction", <<"id">>, 0),
          Method("addTransaction", <<"transaction">>, 0),
          Method("updateTransaction", <<"id", "data">>, 0),
          Method("deleteTransaction", <<"id">>, 0),
          Method("getTransactionSummary", <<"userId", "options">>, 1) },
      categoryService |->
        { Method("getCategories", <<"userId">>, 0),
          Method("getCategory", <<"id">>, 0),
          Method("addCategory", <<"category">>, 0),
          Method("updateCategory", <<"id", "data">>, 0),
          Method("deleteCategory", <<"id">>, 0) },
      budgetGoalService |->
        { Method("getBudgetGoals", <<"userId", "options">>, 1),
          Method("getBudgetGoal", <<"id">>, 0),
          Method("addBudgetGoal", <<"budgetGoal">>, 0),
          Method("updateBudgetGoal", <<"id", "data">>, 0),
          Method("deleteBudgetGoal", <<"id">>, 0),
          Method("getBudgetProgress", <<"userId", "options">>, 1) },
      userProfileService |->
        { Method("getProfile", <<"userId">>, 0),
          Method("updateProfile", <<"userId", "data">>, 0) } ]

Dispatch(service, method, args) ==
    [service |-> service, method |-> method, args |-> args]

\* The call each facade operation makes in its Firestore branch.
FirestoreDispatch(op) ==
    CASE op = "getTransactions" ->
           Dispatch("transactionService", "getTransactions", <<"userId", "options">>)
      [] op = "getTransaction" ->
           Dispatch("transactionService", "getTransaction", <<"userId", "id">>)
      [] op = "createTransaction" ->
           Dispatch("transactionService", "createTransaction", <<"userId", "data">>)
      [] op = "updateTransaction" ->
           Dispatch("transactionService", "updateTransaction", <<"userId", "id", "data">>)
      [] op = "deleteTransaction" ->
           Dispatch("transactionService", "deleteTransaction", <<"userId", "id">>)
      [] op = "getCategories" ->
           Dispatch("categoryService", "getCategories", <<"userId">>)
      [] op = "getCategory" ->
           Dispatch("categoryService", "getCategory", <<"userId", "id">>)
      [] op = "createCategory" ->
           Dispatch("categoryService", "createCategory", <<"userId", "data">>)
      [] op = "updateCategory" ->
           Dispatch("categoryService", "updateCategory", <<"userId", "id", "data">>)
      [] op = "deleteCategory" ->
           Dispatch("categoryService", "deleteCategory", <<"userId", "id">>)
      [] op = "getBudgetGoals" ->
           Dispatch("budgetGoalService", "getBudgetGoals", <<"userId">>)
      [] op = "getBudgetGoal" ->
           Dispatch("budgetGoalService", "getBudgetGoal", <<"userId", "id">>)
      [] op = "createBudgetGoal" ->
           Dispatch("budgetGoalService", "createBudgetGoal", <<"userId", "data">>)
      [] op = "updateBudgetGoal" ->
           Dispatch("budgetGoalService", "updateBudgetGoal", <<"userId", "id", "data">>)
      [] op = "deleteBudgetGoal" ->
           Dispatch("budgetGoalService", "deleteBudgetGoal", <<"userId", "id">>)
      [] op = "getUserProfile" ->
           Dispatch("userProfileService", "getUserProfile", <<"userId">>)
      [] op = "updateUserProfile" ->
           Dispatch("userProfileService", "updateUserProfile", <<"userId", "data">>)
      [] op = "getFinancialSummary" ->
           Dispatch("transactionService", "getTransactions", <<"userId", "options">>)
      [] OTHER -> \* migrateData: its first document-store call
           Dispatch("userProfileService", "createUserProfile", <<"userId", "data">>)

\* The service method a dispatch names, if the service has it.
Target(d) == { m \in FirestoreService[d.service] : m.name = d.method }

\* The arguments passed are the parameters the method takes.
ArgsMatch(d, m) ==
    /\ Len(d.args) <= Len(m.params)
    /\ Len(d.args) >= Len(m.params) - m.optional
    /\ \A i \in 1..Len(d.args) : d.args[i] = m.params[i]

Returned(v) == [thrown |-> FALSE, failure |-> "none", value |-> v, err |-> ""]
Thrown(kind, e) == [thrown |-> TRUE, failure |-> kind, value |-> "", err |-> e]

\* What the body of the try block does in the Supabase branch.
SupabaseCall(op, ok) ==
    IF ~ok THEN Thrown("backend", "backendError")
    ELSE CASE op \in ListReads -> Returned("array")
           [] op \in {"deleteTransaction", "deleteCategory", "deleteBudgetGoal"} ->
                Returned("void")
           [] op = "getFinancialSummary" -> Returned("summary")
           [] OTHER -> Returned("record")

\* What the body of the try block does in the Firestore branch: calling a
\* member the service lacks throws a TypeError; a method called with the user
\* id in the place of the document id addresses a document that does not exist.
FirestoreCall(op, ok) ==
    LET d == FirestoreDispatch(op)
        m == CHOOSE x \in Target(d) : TRUE
    IN  IF Target(d) = {} THEN Thrown("typeError", "TypeError")
        ELSE IF ~ok THEN Thrown("backend", "backendError")
        ELSE IF op = "getFinancialSummary"
             THEN \* transactions.forEach on {transactions, lastDoc}
                  Thrown("typeError", "TypeError")
        ELSE IF op = "getTransactions" THEN Returned("object")
        ELSE IF op \in ListReads THEN Returned("array")
        ELSE IF ArgsMatch(d, m) THEN Returned("record")
        ELSE CASE m.name \in {"getTransaction", "getCategory", "getBudgetGoal"} ->
                    Returned("null")
               [] m.name \in {"deleteTransaction", "deleteCategory", "deleteBudgetGoal"} ->
                    Returned("void")
               [] OTHER -> Thrown("notFound", "not-found")

\* migrateData reads the relational store, then writes through service members
\* the document-store service lacks; with nothing to migrate it writes nothing.
MigrateCall(ok, empty) ==
    IF ~ok THEN Thrown("backend", "backendError")
    ELSE IF empty THEN Returned("migrationSucceeded")
    ELSE Thrown("typeError", "TypeError")

TryBody(op, db, ok, empty) ==
    IF op = "migrateData" THEN MigrateCall(ok, empty)
    ELSE IF db = "supabase" THEN SupabaseCall(op, ok)
    ELSE FirestoreCall(op, ok)

\* The catch blocks: every operation but migrateData raises one destructive toast.
CatchToasts(op) == IF op = "migrateData" THEN <<>> ELSE <<"destructive">>

CatchAlwaysRethrows(op, e) ==
    [settled |-> "rejected", value |-> "", err |-> e]

\* The catch blocks: what the promise settles to.
CatchSettles(op, e) ==
    CASE op \in ListReads -> [settled |-> "resolved", value |-> "emptyArray", err |-> ""]
      [] op = "getFinancialSummary" -> [settled |-> "resolved", value |-> "zeros", err |-> ""]
      [] op = "migrateData" -> [settled |-> "resolved", value |-> "migrationFailed", err |-> ""]
      [] OTHER -> [settled |-> "rejected", value |-> "", err |-> e]

\* The `if (!user)` guards ahead of the try blocks.
WithoutUser(op) ==
    CASE op \in ListReads -> [settled |-> "resolved", value |-> "emptyArray", err |-> ""]
      [] op = "getFinancialSummary" -> [settled |-> "resolved", value |-> "zeros", err |-> ""]
      [] OTHER -> [settled |-> "rejected", value |-> "", err |-> "User not authenticated"]

IdleCall ==
    [op |-> "", db |-> "", stage |-> "idle", failure |-> "none", toasts |-> <<>>,
     attempts |-> 0, settled |-> "none", value |-> "", err |-> ""]

FacadeInit ==
    /\ user = FALSE
    /\ isLoading = FALSE
    /\ call = IdleCall

\* AuthProvider sets or clears the user.
SetUser ==
    /\ user' = ~user
    /\ UNCHANGED <<isLoading, call, databaseType>>
    /\ UNCHANGED notFacade

\* A consumer calls a facade operation: the guard, then setIsLoading(true) and
\* the backend request.
StartCall ==
    /\ call.stage # "pending"
    /\ \E op \in FacadeOps :
          IF ~user
          THEN /\ call' = [IdleCall EXCEPT !.op = op, !.db = databaseType,
                                           !.stage = "settled", !.failure = "noUser",
                                           !.settled = WithoutUser(op).settled,
                                           !.value = WithoutUser(op).value,
                                           !.err = WithoutUser(op).err]
               /\ UNCHANGED isLoading
          ELSE /\ call' = [IdleCall EXCEPT !.op = op, !.db = databaseType,
                                           !.stage = "pending"]
               /\ isLoading' = TRUE
    /\ UNCHANGED <<user, databaseType>>
    /\ UNCHANGED notFacade

\* The backend answers (or fails): the rest of the try block, the catch and
\* the finally.
BackendResponds ==
    /\ call.stage = "pending"
    /\ \E ok \in BOOLEAN, empty \in BOOLEAN :
          LET r == TryBody(call.op, call.db, ok, empty)
              c == CatchSettles(call.op, r.err)
          IN  call' = [call EXCEPT
                          !.stage = "settled",
                          !.attempts = call.attempts + 1,
                          !.failure = r.failure,
                          !.toasts = IF r.thrown THEN CatchToasts(call.op) ELSE <<>>,
                          !.settled = IF r.thrown THEN c.settled ELSE "resolved",
                          !.value = IF r.thrown THEN c.value ELSE r.value,
                          !.err = IF r.thrown THEN c.err ELSE ""]
    /\ isLoading' = FALSE
    /\ UNCHANGED <<user, databaseType>>
    /\ UNCHANGED notFacade

FacadeNext ==
    \/ SetUser
    \/ SetDatabaseType
    \/ StartCall
    \/ BackendResponds

----------------------------------------------------------------------------
(***************************************************************************)
(* TransactionsTable: cursor pagination over the document store            *)
(***************************************************************************)

pageSize == 10

\* Bounds of the model.
NumDocs == 22       \* documents the user has at the start
MaxChanges == 1     \* deletes and edits in one behaviour
MaxPending == 1     \* fetches in flight at once
MaxFailures == 1    \* backend requests of the table that fail
MaxPage == 4        \* the furthest page Next is pressed to

\* An absent date (dateRange undefined, options.startDate unset).
NoDate == 0

Doc(id, date, categoryId, amount, title) ==
    [id |-> id, date |-> date, categoryId |-> categoryId, amount |-> amount,
     title |-> title]

\* An undefined cursor.
NoDoc == Doc(0, NoDate, "", 0, "")

\* The categories the table knows, by id.
TableCategories ==
    { [id |-> "c1", name |-> "Salary", type |-> "income"],
      [id |-> "c2", name |-> "Housing", type |-> "expense"] }

\* The data at the start: dates tie in pairs and a tie straddles the end of
\* page 1; half of the documents are in each category.
InitialDocs ==
    { Doc(i, 1 + (i \div 2),
          IF i % 2 = 0 THEN "c1" ELSE "c2",
          IF i % 2 = 0 THEN (IF i % 3 = 0 THEN 30 ELSE 200)
                       ELSE (IF i % 3 = 0 THEN -30 ELSE -200),
          IF i % 4 = 0 THEN "Rent" ELSE "Food") : i \in 1..NumDocs }

\* ---- transactionService.getTransactions ----------------------------------
\* orderBy("transactionDate", "desc"): ties are ordered by document id, in
\* the same direction.
Before(a, b) == a.date > b.date \/ (a.date = b.date /\ a.id > b.id)

RECURSIVE OrderBy(_)
OrderBy(S) ==
    IF S = {} THEN <<>>
    ELSE LET first == CHOOSE d \in S : \A e \in S : ~Before(e, d)
         IN  <<first>> \o OrderBy(S \ {first})

Where(S, options) ==
    { d \in S :
        /\ options.categoryId # Undefined => d.categoryId = options.categoryId
        /\ options.startDate # NoDate => d.date >= options.startDate
        /\ options.endDate # NoDate => d.date <= options.endDate }

StartAfterDateOnly(rows, cursor) ==
    SelectSeq(rows, LAMBDA d : d.date < cursor.date)

\* startAfter(snapshot): the documents ordered after the snapshot's position.
StartAfter(rows, cursor) ==
    SelectSeq(rows, LAMBDA d : Before(cursor, d))

Limit(rows, n) == SubSeq(rows, 1, IF Len(rows) < n THEN Len(rows) ELSE n)

getTransactions(S, options) ==
    LET ordered == OrderBy(Where(S, options))
        after == IF options.lastDoc # NoDoc
                 THEN StartAfter(ordered, options.lastDoc) ELSE ordered
        rows == Limit(after, options.limit)
    IN  [transactions |-> rows,
         lastDoc |-> IF rows = <<>> THEN NoDoc ELSE rows[Len(rows)]]

\* ---- fetchTransactions ----------------------------------------------------
Uppercase == "ABCDEFGHIJKLMNOPQRSTUVWXYZ"
Lowercase == "abcdefghijklmnopqrstuvwxyz"

LowerChar(c) ==
    IF \E i \in 1..Len(Uppercase) : SubSeq(Uppercase, i, i) = c
    THEN LET i == CHOOSE j \in 1..Len(Uppercase) : SubSeq(Uppercase, j, j) = c
         IN  SubSeq(Lowercase, i, i)
    ELSE c

RECURSIVE toLowerCase(_)
toLowerCase(str) ==
    IF str = "" THEN ""
    ELSE LowerChar(SubSeq(str, 1, 1)) \o toLowerCase(SubSeq(str, 2, Len(str)))

includes(str, sub) ==
    \E i \in 0..(Len(str) - Len(sub)) : SubSeq(str, i + 1, i + Len(sub)) = sub

CategoryName(id) ==
    IF \E c \in TableCategories : c.id = id
    THEN (CHOOSE c \in TableCategories : c.id = id).name
    ELSE ""

DefaultFilters ==
    [search |-> "", categoryId |-> "all",
     dateRange |-> [from |-> NoDate, to |-> NoDate], amountRange |-> "all"]

\* The filters the user can set.
FilterInputs ==
    { DefaultFilters,
      [DefaultFilters EXCEPT !.categoryId = "c1"],
      [DefaultFilters EXCEPT !.search = "Re", !.amountRange = "100-500",
                             !.dateRange = [from |-> 3, to |-> 11]] }

\* Client-side filtering for search and amount range (documents carry no notes).
MatchesSearch(tx, search) ==
    \/ includes(toLowerCase(tx.title), toLowerCase(search))
    \/ (CategoryName(tx.categoryId) # ""
        /\ includes(toLowerCase(CategoryName(tx.categoryId)), toLowerCase(search)))

InAmountRange(tx, range) ==
    CASE range = "0-50" -> Abs(tx.amount) >= 0 /\ Abs(tx.amount) <= 50
      [] range = "50-100" -> Abs(tx.amount) > 50 /\ Abs(tx.amount) <= 100
      [] range = "100-500" -> Abs(tx.amount) > 100 /\ Abs(tx.amount) <= 500
      [] range = "500+" -> Abs(tx.amount) > 500
      [] OTHER -> TRUE

ClientFilter(rows, f) ==
    LET searched == IF f.search # ""
                    THEN SelectSeq(rows, LAMBDA tx : MatchesSearch(tx, f.search))
                    ELSE rows
    IN  IF f.amountRange # "all"
        THEN SelectSeq(searched, LAMBDA tx : InAmountRange(tx, f.amountRange))
        ELSE searched

\* The query options fetchTransactions builds from the filters.
Options(f) ==
    [limit |-> pageSize,
     categoryId |-> IF f.categoryId # "all" THEN f.categoryId ELSE Undefined,
     startDate |-> f.dateRange.from,
     endDate |-> IF f.dateRange.from # NoDate THEN f.dateRange.to ELSE NoDate,
     lastDoc |-> NoDoc]

\* The loop that fetches all previous pages when there is no cursor.
RECURSIVE ReplayCursor(_, _, _, _, _)
ReplayCursor(S, options, i, page, tempLastDoc) ==
    IF ~(i < page) THEN tempLastDoc
    ELSE ReplayCursor(S, options, i + 1, page,
             getTransactions(S, [options EXCEPT !.lastDoc = tempLastDoc]).lastDoc)

\* A fetchTransactions call holds the state of the render that started it.
Closure(page, cursor, f) == [currentPage |-> page, lastDoc |-> cursor, filters |-> f]

\* What one fetchTransactions call, run against the documents S, sets.
fetchTransactions(c, S) ==
    LET options == Options(c.filters)
        cursor == IF c.currentPage > 1 /\ c.lastDoc # NoDoc THEN c.lastDoc
                  ELSE IF c.currentPage > 1
                       THEN ReplayCursor(S, options, 1, c.currentPage, NoDoc)
                       ELSE NoDoc
        fetched == getTransactions(S, [options EXCEPT !.lastDoc = cursor])
    IN  [lastDoc |-> fetched.lastDoc,
         transactions |-> ClientFilter(fetched.transactions, c.filters),
         totalPages |-> IF c.currentPage > 1 THEN c.currentPage ELSE 1]

TableInit ==
    /\ txDocs = InitialDocs
    /\ currentPage = 1
    /\ lastDoc = NoDoc
    /\ filters = DefaultFilters
    /\ transactions = <<>>
    /\ totalPages = 1
    /\ tableLoading = TRUE
    /\ pending = << Closure(1, NoDoc, DefaultFilters) >>
    /\ completed = [currentPage |-> 0, filters |-> DefaultFilters, ok |-> FALSE]
    /\ forward = -1
    /\ changes = 0
    /\ failures = 0

\* The fetch effect, or a direct call: fetchTransactions starts.
StartFetch(c) ==
    /\ Len(pending) < MaxPending
    /\ pending' = Append(pending, c)
    /\ tableLoading' = TRUE

\* The Next button.
NextPage ==
    /\ ~(Len(transactions) < pageSize \/ tableLoading)
    /\ currentPage < MaxPage
    /\ currentPage' = currentPage + 1
    /\ StartFetch(Closure(currentPage + 1, lastDoc, filters))
    /\ forward' = IF forward >= 0 /\ pending = <<>> THEN forward + 1 ELSE -1
    /\ UNCHANGED <<txDocs, lastDoc, filters, transactions, totalPages, completed,
                   changes, failures, toast>>
    /\ UNCHANGED notTable

\* The Previous button.
PreviousPage ==
    /\ ~(currentPage = 1 \/ tableLoading)
    /\ currentPage' = IF currentPage - 1 > 1 THEN currentPage - 1 ELSE 1
    /\ StartFetch(Closure(currentPage', lastDoc, filters))
    /\ forward' = -1
    /\ UNCHANGED <<txDocs, lastDoc, filters, transactions, totalPages, completed,
                   changes, failures, toast>>
    /\ UNCHANGED notTable

handleFiltersChange ==
    /\ \E newFilters \in FilterInputs :
          /\ filters' = newFilters
          /\ currentPage' = 1
          /\ lastDoc' = NoDoc
          /\ StartFetch(Closure(1, NoDoc, newFilters))
    /\ forward' = -1
    /\ UNCHANGED <<txDocs, transactions, totalPages, completed, changes, failures,
                   toast>>
    /\ UNCHANGED notTable

\* The displayed rows the user acts on: the first and the last.
RowChoices == {1, Len(transactions)} \cap (1..Len(transactions))

\* Delete confirmed for a displayed row; a refresh follows a successful delete.
handleDeleteTransaction ==
    /\ changes < MaxChanges
    /\ \E i \in RowChoices, ok \in BOOLEAN :
          IF ok
          THEN /\ txDocs' = { d \in txDocs : d.id # transactions[i].id }
               /\ toast' = "Transaction deleted"
               /\ StartFetch(Closure(currentPage, lastDoc, filters))
               /\ UNCHANGED failures
          ELSE /\ failures < MaxFailures
               /\ failures' = failures + 1
               /\ toast' = "Error"
               /\ UNCHANGED <<txDocs, pending, tableLoading>>
    /\ changes' = changes + 1
    /\ forward' = -1
    /\ UNCHANGED <<currentPage, lastDoc, filters, transactions, totalPages, completed>>
    /\ UNCHANGED notTable

\* The amounts typed into the edit dialog.
EditAmountInputs == {"30"}

\* EditTransactionDialog.onSubmit for a displayed row; a refresh follows a
\* successful update.
EditTransaction ==
    /\ changes < MaxChanges
    /\ \E i \in RowChoices, amount \in EditAmountInputs, ok \in BOOLEAN :
          LET tx == transactions[i]
              selected == { c \in TableCategories : c.id = tx.categoryId }
              signed == IF \E c \in selected : c.type = "expense"
                        THEN -Abs(parseFloat(amount)) ELSE Abs(parseFloat(amount))
          IN  IF ok /\ \E d \in txDocs : d.id = tx.id
              THEN /\ txDocs' = { d \in txDocs : d.id # tx.id }
                                \cup { [tx EXCEPT !.amount = signed] }
                   /\ toast' = "Transaction updated"
                   /\ StartFetch(Closure(currentPage, lastDoc, filters))
                   /\ UNCHANGED failures
              ELSE /\ failures < MaxFailures
                   /\ failures' = failures + 1
                   /\ toast' = "Error"
                   /\ UNCHANGED <<txDocs, pending, tableLoading>>
    /\ changes' = changes + 1
    /\ forward' = -1
    /\ UNCHANGED <<currentPage, lastDoc, filters, transactions, totalPages, completed>>
    /\ UNCHANGED notTable

\* A fetchTransactions call in flight gets its answers and finishes.
CompleteFetch ==
    /\ \E i \in 1..Len(pending), ok \in BOOLEAN :
          LET c == pending[i]
          IN  \E r \in {fetchTransactions(c, txDocs)} :
              /\ pending' = SubSeq(pending, 1, i - 1) \o SubSeq(pending, i + 1, Len(pending))
              /\ completed' = [currentPage |-> c.currentPage, filters |-> c.filters,
                                ok |-> ok]
              /\ IF ok
                 THEN /\ lastDoc' = r.lastDoc
                      /\ transactions' = r.transactions
                      /\ totalPages' = r.totalPages
                      /\ UNCHANGED <<toast, failures>>
                 ELSE /\ failures < MaxFailures
                      /\ failures' = failures + 1
                      /\ toast' = "Error"
                      /\ UNCHANGED <<lastDoc, transactions, totalPages>>
              /\ forward' = IF ~ok THEN -1
                            ELSE IF /\ Len(pending) = 1
                                    /\ c.currentPage = 1
                                    /\ currentPage = 1
                                    /\ c.filters = filters
                                 THEN 0
                                 ELSE forward
    /\ tableLoading' = FALSE
    /\ UNCHANGED <<txDocs, currentPage, filters, changes>>
    /\ UNCHANGED notTable

TableNext ==
    \/ NextPage
    \/ PreviousPage
    \/ handleFiltersChange
    \/ handleDeleteTransaction
    \/ EditTransaction
    \/ CompleteFetch

----------------------------------------------------------------------------
(***************************************************************************)
(* DatabaseMigration: copying the relational data to the document store    *)
(***************************************************************************)

MaxRuns == 2        \* startMigration calls in one behaviour

UserId == "u1"
Null == "null"

\* The relational data of the signed-in user: a default category (user_id
\* null), a category of their own, and records that reference both.
RelCategories ==
    { [id |-> 1, user_id |-> Null, name |-> "Food"],
      [id |-> 2, user_id |-> UserId, name |-> "Hobby"] }
RelTransactions ==
    { [id |-> 1, user_id |-> UserId, title |-> "Lunch", category_id |-> 1],
      [id |-> 2, user_id |-> UserId, title |-> "Paint", category_id |-> 2] }
RelBudgetGoals ==
    { [id |-> 1, user_id |-> UserId, amount |-> 100, category_id |-> 2] }

\* doc(collection): a fresh auto-generated id, never a numeral.
AutoId(n) == "auto" \o NatToString(n)

\* The ids doc(collection) hands out for the records written in one loop:
\* record k of the loop (by id) gets the k-th id after those already used.
FreshId(written, r) ==
    AutoId(autoIds + Cardinality({ q \in written : q.id <= r.id }))

\* category_id?.toString()
toString(n) == IntToString(n)

NoResults == [present |-> FALSE, success |-> FALSE, profileMigrated |-> FALSE,
              categoriesMigrated |-> 0, transactionsMigrated |-> 0,
              budgetGoalsMigrated |-> 0, errors |-> <<>>]

NothingMigrated == [profile |-> FALSE, categories |-> 0, transactions |-> 0,
                    budgetGoals |-> 0]

MigrationInit ==
    /\ migrationPc = "idle"
    /\ isMigrating = FALSE
    /\ progress = 0
    /\ step = ""
    /\ migrationResults = NoResults
    /\ errors = <<>>
    /\ migrated = NothingMigrated
    /\ fsUsers = {}
    /\ fsCategories = {}
    /\ fsTxs = {}
    /\ fsBudgetGoals = {}
    /\ autoIds = 0
    /\ runs = 0

\* No message at all for the records.
NoErrorsFor(message, records) == <<>>

\* One error message per element of a set of records.
RECURSIVE ErrorsFor(_, _)
ErrorsFor(message, records) ==
    IF records = {} THEN <<>>
    ELSE LET r == CHOOSE x \in records : \A y \in records : x.id <= y.id
         IN  <<message>> \o ErrorsFor(message, records \ {r})

\* The Start Migration button.
startMigration ==
    /\ ~isMigrating
    /\ runs < MaxRuns
    /\ IF ~user
       THEN /\ toast' = "Error"
            /\ UNCHANGED <<migrationPc, isMigrating, progress, step, migrationResults,
                           errors, migrated>>
       ELSE /\ isMigrating' = TRUE
            /\ progress' = 0
            /\ step' = "Initializing migration..."
            /\ migrationResults' = NoResults
            /\ errors' = <<>>
            /\ migrated' = NothingMigrated
            /\ migrationPc' = "profile"
            /\ UNCHANGED toast
    /\ runs' = runs + 1
    /\ UNCHANGED <<fsUsers, fsCategories, fsTxs, fsBudgetGoals, autoIds>>
    /\ UNCHANGED notMigration

\* Step 1: the user profile, written under the user's id.
MigrateProfile ==
    /\ migrationPc = "profile"
    /\ step' = "Migrating user profile..."
    /\ progress' = 10
    /\ \E fetchOk \in BOOLEAN, writeOk \in BOOLEAN :
          IF ~fetchOk
          THEN /\ errors' = Append(errors, "Error fetching profile")
               /\ UNCHANGED <<fsUsers, migrated>>
          ELSE IF writeOk
          THEN /\ fsUsers' = fsUsers \cup {UserId}
               /\ migrated' = [migrated EXCEPT !.profile = TRUE]
               /\ UNCHANGED errors
          ELSE /\ errors' = Append(errors, "Error migrating profile")
               /\ UNCHANGED <<fsUsers, migrated>>
    /\ migrationPc' = "categories"
    /\ UNCHANGED <<isMigrating, migrationResults, fsCategories, fsTxs, fsBudgetGoals,
                   autoIds, runs, toast>>
    /\ UNCHANGED notMigration

\* Step 2: the categories whose user_id is the user's, each under a fresh id.
MigrateCategories ==
    /\ migrationPc = "categories"
    /\ step' = "Migrating categories..."
    /\ progress' = 30
    /\ \E fetchOk \in BOOLEAN :
          LET fetched == { c \in RelCategories : c.user_id = UserId }
          IN  IF ~fetchOk
              THEN /\ errors' = Append(errors, "Error fetching categories")
                   /\ UNCHANGED <<fsCategories, migrated, autoIds>>
              ELSE \E written \in SUBSET fetched :
                   /\ fsCategories' = fsCategories \cup
                         { [docId |-> FreshId(written, c), userId |-> UserId,
                            name |-> c.name] : c \in written }
                   /\ autoIds' = autoIds + Cardinality(written)
                   /\ migrated' = [migrated EXCEPT !.categories = Cardinality(written)]
                   /\ errors' = errors \o
                         ErrorsFor("Error migrating category", fetched \ written)
    /\ migrationPc' = "transactions"
    /\ UNCHANGED <<isMigrating, migrationResults, fsUsers, fsTxs, fsBudgetGoals, runs,
                   toast>>
    /\ UNCHANGED notMigration

\* Step 3: the user's transactions, each under a fresh id.
MigrateTransactions ==
    /\ migrationPc = "transactions"
    /\ step' = "Migrating transactions..."
    /\ progress' = 60
    /\ \E fetchOk \in BOOLEAN :
          LET fetched == { t \in RelTransactions : t.user_id = UserId }
          IN  IF ~fetchOk
              THEN /\ errors' = Append(errors, "Error fetching transactions")
                   /\ UNCHANGED <<fsTxs, migrated, autoIds>>
              ELSE \E written \in SUBSET fetched :
                   /\ fsTxs' = fsTxs \cup
                         { [docId |-> FreshId(written, t), userId |-> UserId,
                            title |-> t.title,
                            categoryId |-> toString(t.category_id)] : t \in written }
                   /\ autoIds' = autoIds + Cardinality(written)
                   /\ migrated' = [migrated EXCEPT !.transactions = Cardinality(written)]
                   /\ errors' = errors \o
                         ErrorsFor("Error migrating transaction", fetched \ written)
    /\ migrationPc' = "budgetGoals"
    /\ UNCHANGED <<isMigrating, migrationResults, fsUsers, fsCategories, fsBudgetGoals,
                   runs, toast>>
    /\ UNCHANGED notMigration

\* Step 4: the user's budget goals, each under a fresh id.
MigrateBudgetGoals ==
    /\ migrationPc = "budgetGoals"
    /\ step' = "Migrating budget goals..."
    /\ progress' = 90
    /\ \E fetchOk \in BOOLEAN :
          LET fetched == { g \in RelBudgetGoals : g.user_id = UserId }
          IN  IF ~fetchOk
              THEN /\ errors' = Append(errors, "Error fetching budget goals")
                   /\ UNCHANGED <<fsBudgetGoals, migrated, autoIds>>
              ELSE \E written \in SUBSET fetched :
                   /\ fsBudgetGoals' = fsBudgetGoals \cup
                         { [docId |-> FreshId(written, g), userId |-> UserId,
                            amount |-> g.amount,
                            categoryId |-> toString(g.category_id)] : g \in written }
                   /\ autoIds' = autoIds + Cardinality(written)
                   /\ migrated' = [migrated EXCEPT !.budgetGoals = Cardinality(written)]
                   /\ errors' = errors \o
                         ErrorsFor("Error migrating budget goal", fetched \ written)
    /\ migrationPc' = "complete"
    /\ UNCHANGED <<isMigrating, migrationResults, fsUsers, fsCategories, fsTxs, runs,
                   toast>>
    /\ UNCHANGED notMigration

\* Migration complete: the results, the toast and the finally block.
CompleteMigration ==
    /\ migrationPc = "complete"
    /\ step' = "Migration complete!"
    /\ progress' = 100
    /\ migrationResults' =
          [present |-> TRUE, success |-> Len(errors) = 0,
           profileMigrated |-> migrated.profile,
           categoriesMigrated |-> migrated.categories,
           transactionsMigrated |-> migrated.transactions,
           budgetGoalsMigrated |-> migrated.budgetGoals,
           errors |-> errors]
    /\ toast' = IF Len(errors) = 0 THEN "Migration successful"
                ELSE "Migration completed with errors"
    /\ isMigrating' = FALSE
    /\ migrationPc' = "idle"
    /\ UNCHANGED <<errors, migrated, fsUsers, fsCategories, fsTxs, fsBudgetGoals,
                   autoIds, runs>>
    /\ UNCHANGED notMigration

MigrationNext ==
    \/ SetUser
    \/ startMigration
    \/ MigrateProfile
    \/ MigrateCategories
    \/ MigrateTransactions
    \/ MigrateBudgetGoals
    \/ CompleteMigration

----------------------------------------------------------------------------
(***************************************************************************)
(* The financial summary: two aggregations over a list of transactions     *)
(***************************************************************************)

MaxSummaryLen == 3  \* transactions in a summarised list

\* The amounts of the transactions summarised.
SummaryAmounts == {-3, -1, 0, 2, 5}

SummaryLists ==
    UNION { [1..n -> [amount : SummaryAmounts]] : n \in 0..MaxSummaryLen }

NoSummary == [present |-> FALSE, income |-> 0, expenses |-> 0, balance |-> 0]

\* One turn of transactions.forEach in getFinancialSummary.
FacadeStep(acc, transaction) ==
    LET amount == transaction.amount   \* Number() of a number
    IN  IF amount > 0
        THEN [acc EXCEPT !.income = acc.income + amount]
        ELSE [acc EXCEPT !.expenses = acc.expenses + Abs(amount)]

ServiceStepNoAbs(acc, transaction) ==
    IF transaction.amount > 0
    THEN [acc EXCEPT !.income = acc.income + transaction.amount]
    ELSE [acc EXCEPT !.expenses = acc.expenses + transaction.amount]

\* One turn of transactions.forEach in getTransactionSummary.
ServiceStep(acc, transaction) ==
    IF transaction.amount > 0
    THEN [acc EXCEPT !.income = acc.income + transaction.amount]
    ELSE [acc EXCEPT !.expenses = acc.expenses + Abs(transaction.amount)]

RECURSIVE FacadeTotals(_, _)
FacadeTotals(acc, list) ==
    IF list = <<>> THEN acc
    ELSE FacadeTotals(FacadeStep(acc, Head(list)), Tail(list))

RECURSIVE ServiceTotals(_, _)
ServiceTotals(acc, list) ==
    IF list = <<>> THEN acc
    ELSE ServiceTotals(ServiceStep(acc, Head(list)), Tail(list))

\* return { income, expenses, balance: income - expenses }
SummaryOf(totals) ==
    [present |-> TRUE, income |-> totals.income, expenses |-> totals.expenses,
     balance |-> totals.income - totals.expenses]

SummaryInit ==
    /\ summaryTransactions = <<>>
    /\ facadeSummary = NoSummary
    /\ serviceSummary = NoSummary

\* The backend holds some list of transactions for the period.
StoreTransactions ==
    /\ \E list \in SummaryLists : summaryTransactions' = list
    /\ facadeSummary' = NoSummary
    /\ serviceSummary' = NoSummary
    /\ UNCHANGED notSummary

\* DatabaseProvider.getFinancialSummary over the fetched rows.
getFinancialSummary ==
    /\ facadeSummary' =
          SummaryOf(FacadeTotals([income |-> 0, expenses |-> 0], summaryTransactions))
    /\ UNCHANGED <<summaryTransactions, serviceSummary>>
    /\ UNCHANGED notSummary

\* transactionService.getTransactionSummary over the fetched documents.
getTransactionSummary ==
    /\ serviceSummary' =
          SummaryOf(ServiceTotals([income |-> 0, expenses |-> 0], summaryTransactions))
    /\ UNCHANGED <<summaryTransactions, facadeSummary>>
    /\ UNCHANGED notSummary

SummaryNext ==
    \/ StoreTransactions
    \/ getFinancialSummary
    \/ getTransactionSummary
----------------------------------------------------------------------------
(***************************************************************************)
(* DatabaseProvider: the database preference kept in localStorage          *)
(***************************************************************************)

MaxReloads == 3     \* page reloads in one behaviour

DatabaseTypes == {"supabase", "firestore"}

\* A value some other code or the user put under the key.
ForeignValues == {"mysql"}

\* The load effect's test of the saved value.
IsSavedType(savedType) ==
    savedType # "none" /\ (savedType = "supabase" \/ savedType = "firestore")

NoPreference == [value |-> "none", saved |-> FALSE]

\* DatabaseProvider as mounted on an empty localStorage, effects run.
PrefInit ==
    /\ stored = "supabase"
    /\ pendingUpdate = "none"
    /\ savedFor = "supabase"
    /\ preferred = NoPreference
    /\ reloads = 0

\* DatabaseSettings.handleDatabaseChange: the user selects the other database;
\* this state update follows any the load effect has queued.
handleDatabaseChange ==
    /\ \E value \in DatabaseTypes \ {databaseType} :
          /\ databaseType' = value
          /\ preferred' = [value |-> value, saved |-> FALSE]
    /\ pendingUpdate' = "none"
    /\ toast' = "Database changed"
    /\ UNCHANGED <<stored, savedFor, reloads>>
    /\ UNCHANGED notPref

\* The save effect of a render whose databaseType differs from the last one's.
SavePreference ==
    /\ pendingUpdate = "none"
    /\ savedFor # databaseType
    /\ stored' = databaseType
    /\ savedFor' = databaseType
    /\ preferred' = IF preferred.value = databaseType
                    THEN [preferred EXCEPT !.saved = TRUE] ELSE preferred
    /\ UNCHANGED <<databaseType, toast, pendingUpdate, reloads>>
    /\ UNCHANGED notPref

\* A page reload: DatabaseProvider mounts with its initial state and both
\* effects of the first render run, the load effect before the save effect.
Remount ==
    /\ reloads < MaxReloads
    /\ reloads' = reloads + 1
    /\ databaseType' = "supabase"
    /\ pendingUpdate' = IF IsSavedType(stored) THEN stored ELSE "none"
    /\ stored' = "supabase"
    /\ savedFor' = "supabase"
    /\ UNCHANGED <<toast, preferred>>
    /\ UNCHANGED notPref

\* The render that follows the load effect's setDatabaseType.
ApplyLoadedPreference ==
    /\ pendingUpdate # "none"
    /\ databaseType' = pendingUpdate
    /\ pendingUpdate' = "none"
    /\ UNCHANGED <<toast, stored, savedFor, preferred, reloads>>
    /\ UNCHANGED notPref

\* Something else writes the item.
ForeignWrite ==
    /\ \E value \in ForeignValues : stored' = value
    /\ preferred' = NoPreference
    /\ UNCHANGED <<databaseType, toast, pendingUpdate, savedFor, reloads>>
    /\ UNCHANGED notPref

PrefNext ==
    \/ handleDatabaseChange
    \/ SavePreference
    \/ Remount
    \/ ApplyLoadedPreference
    \/ ForeignWrite
----------------------------------------------------------------------------
(***************************************************************************)
(* TransactionsTable: the search box, one fetch per keystroke              *)
(***************************************************************************)

MaxOverlap == 2     \* fetches a burst of keystrokes leaves in flight

\* What the search box holds after a keystroke.
SearchInputs == {"", "R", "Re", "Ren"}

\* TransactionFilters.handleSearchChange, then handleFiltersChange and the
\* fetch effect: nothing cancels the fetches already in flight.
handleSearchChange ==
    /\ Len(pending) < MaxOverlap
    /\ \E value \in SearchInputs \ {filters.search} :
          LET newFilters == [filters EXCEPT !.search = value]
          IN  /\ filters' = newFilters
              /\ pending' = Append(pending, Closure(1, NoDoc, newFilters))
    /\ currentPage' = 1
    /\ lastDoc' = NoDoc
    /\ tableLoading' = TRUE
    /\ forward' = -1
    /\ UNCHANGED <<txDocs, transactions, totalPages, completed, changes, failures,
                   toast>>
    /\ UNCHANGED notTable

SearchNext ==
    \/ handleSearchChange
    \/ CompleteFetch
----------------------------------------------------------------------------
(***************************************************************************)
(* EditTransactionDialog                                                   *)
(***************************************************************************)

\* The transactions a row hands to the dialog; a record may lack its id.
DialogTransactions ==
    { [id |-> "t1", amount |-> -45, categoryId |-> "c2"],
      [id |-> "t2", amount |-> 1200, categoryId |-> "c1"],
      [id |-> "", amount |-> -45, categoryId |-> "c2"] }

NoTransaction == [id |-> "", amount |-> 0, categoryId |-> ""]

\* The amounts typed into the dialog.
DialogAmountInputs == {"", "0", "30", "-30"}

NoUpdate == [present |-> FALSE, id |-> "", amount |-> 0, categoryId |-> "",
             list |-> "idle"]

\* The dialog's schema for amount: a non-zero number.
DialogAmountValid(val) == ~NumberIsNaN(val) /\ Number(val) # 0

\* Adjust amount sign based on category type: selectedCategory is the set of
\* entries of the dialog's list with the chosen id (empty: undefined).
EditSign(amount, selectedCategory) ==
    IF \E c \in selectedCategory : c.type = "expense"
    THEN -Abs(amount) ELSE Abs(amount)

DialogInit ==
    /\ dialogCategories = {}
    /\ categoriesFetch = "idle"
    /\ dialogTransaction = NoTransaction
    /\ dialogValues = [amount |-> "", categoryId |-> Undefined]
    /\ updated = NoUpdate
    /\ dialogToast = ""

\* The effect on [user]: fetchCategories starts.
DialogFetchCategories ==
    /\ user
    /\ categoriesFetch = "idle"
    /\ categoriesFetch' = "loading"
    /\ UNCHANGED <<dialogCategories, dialogTransaction, dialogValues, updated,
                   dialogToast>>
    /\ UNCHANGED notDialog

\* categoryService.getCategories answers, or fails and is only logged.
DialogCategoriesArrive ==
    /\ categoriesFetch = "loading"
    /\ \E ok \in BOOLEAN :
          IF ok
          THEN /\ dialogCategories' = TableCategories
               /\ categoriesFetch' = "loaded"
          ELSE /\ categoriesFetch' = "failed"
               /\ UNCHANGED dialogCategories
    /\ UNCHANGED <<dialogTransaction, dialogValues, updated, dialogToast>>
    /\ UNCHANGED notDialog

\* The dialog opens on a row: form.reset from the transaction.
OpenDialog ==
    /\ \E tx \in DialogTransactions :
          /\ dialogTransaction' = tx
          /\ dialogValues' = [amount |-> IntToString(Abs(tx.amount)),
                              categoryId |-> tx.categoryId]
    /\ UNCHANGED <<dialogCategories, categoriesFetch, updated, dialogToast>>
    /\ UNCHANGED notDialog

\* The user types an amount.
TypeAmount ==
    /\ dialogTransaction # NoTransaction
    /\ \E amount \in DialogAmountInputs :
          dialogValues' = [dialogValues EXCEPT !.amount = amount]
    /\ UNCHANGED <<dialogCategories, categoriesFetch, dialogTransaction, updated,
                   dialogToast>>
    /\ UNCHANGED notDialog

\* The user picks one of the categories the Select lists.
PickCategory ==
    /\ dialogTransaction # NoTransaction
    /\ \E c \in dialogCategories :
          dialogValues' = [dialogValues EXCEPT !.categoryId = c.id]
    /\ UNCHANGED <<dialogCategories, categoriesFetch, dialogTransaction, updated,
                   dialogToast>>
    /\ UNCHANGED notDialog

\* EditTransactionDialog.onSubmit, run when the values pass the schema.
SubmitEdit ==
    /\ dialogTransaction # NoTransaction
    /\ DialogAmountValid(dialogValues.amount)
    /\ IF dialogTransaction.id = "" \/ ~user
       THEN UNCHANGED <<updated, dialogToast>>
       ELSE \E ok \in BOOLEAN :
            LET selectedCategory ==
                    { cat \in dialogCategories : cat.id = dialogValues.categoryId }
                amount == EditSign(parseFloat(dialogValues.amount), selectedCategory)
            IN  /\ updated' = [present |-> TRUE, id |-> dialogTransaction.id,
                               amount |-> amount,
                               categoryId |-> dialogValues.categoryId,
                               list |-> categoriesFetch]
                /\ dialogToast' = IF ok THEN "Transaction updated" ELSE "Error"
    /\ UNCHANGED <<dialogCategories, categoriesFetch, dialogTransaction, dialogValues>>
    /\ UNCHANGED notDialog

DialogNext ==
    \/ SetUser
    \/ DialogFetchCategories
    \/ DialogCategoriesArrive
    \/ OpenDialog
    \/ TypeAmount
    \/ PickCategory
    \/ SubmitEdit
----------------------------------------------------------------------------
(***************************************************************************)
(* CSVImport: each parsed row is matched to a category by name, its        *)
(* amount parsed and signed by the category's type, its date parsed, and   *)
(* the row inserted.                                                       *)
(***************************************************************************)
\* The longest import file of the model, in rows.
MaxRows == 2

\* supabase.from("categories").select("id, name, type")
CsvCategories == TableCategories

CsvAmountInputs == {"45", "-45", "$45", "0", "abc"}
CsvCategoryInputs == {"housing", "Salary", "Food"}
CsvDateInputs == {"2024-01-15", "soon"}

CsvRows ==
    [amount : CsvAmountInputs, category : CsvCategoryInputs, date : CsvDateInputs]

CsvFiles == UNION { [1..n -> CsvRows] : n \in 1..MaxRows }

\* categories?.find((c) => c.name.toLowerCase() === transaction.category.toLowerCase())
\* as the set of matches: empty when find returns undefined.
CsvFindCategory(name) ==
    { c \in CsvCategories : toLowerCase(c.name) = toLowerCase(name) }

\* transaction.amount.replace(/[^0-9.-]+/g, "")
RECURSIVE StripNonNumeric(_)
StripNonNumeric(s) ==
    IF s = "" THEN ""
    ELSE (IF IsDigit(SubSeq(s, 1, 1)) \/ SubSeq(s, 1, 1) \in {".", "-"}
          THEN SubSeq(s, 1, 1) ELSE "")
         \o StripNonNumeric(SubSeq(s, 2, Len(s)))

\* Number.parseFloat of the stripped text and the sign adjustment; nan marks
\* NaN, which neither comparison of the adjustment changes.
CsvAmount(text, category) ==
    LET stripped == StripNonNumeric(text)
        amount == parseFloat(stripped)
    IN  IF parseFloatIsNaN(stripped) THEN [nan |-> TRUE, value |-> 0]
        ELSE IF category.type = "expense" /\ amount > 0
             THEN [nan |-> FALSE, value |-> -amount]
        ELSE IF category.type = "income" /\ amount < 0
             THEN [nan |-> FALSE, value |-> Abs(amount)]
        ELSE [nan |-> FALSE, value |-> amount]

\* new Date(text) has a valid time: ISO calendar dates yyyy-mm-dd parse, free
\* text does not.
DateParses(text) ==
    /\ Len(text) = 10
    /\ SubSeq(text, 5, 5) = "-" /\ SubSeq(text, 8, 8) = "-"
    /\ AllDigits(SubSeq(text, 1, 4) \o SubSeq(text, 6, 7) \o SubSeq(text, 9, 10))
    /\ DigitsValue(SubSeq(text, 6, 7)) \in 1..12
    /\ DigitsValue(SubSeq(text, 9, 10)) \in 1..31

NoImportResults == [present |-> FALSE, success |-> 0, failed |-> 0, total |-> 0]

CsvInit ==
    /\ csvPc = "idle"
    /\ csvQueue = <<>>
    /\ csvLog = <<>>
    /\ successCount = 0
    /\ failedCount = 0
    /\ importResults = NoImportResults
    /\ csvToast = ""

\* onSubmit up to the start of the complete callback: the file is parsed.
\* One import runs at a time.
CsvSubmit ==
    /\ csvPc \in {"idle", "done"}
    /\ \E file \in CsvFiles : csvQueue' = file
    /\ csvPc' = "categories"
    /\ csvLog' = <<>>
    /\ successCount' = 0
    /\ failedCount' = 0
    /\ importResults' = NoImportResults
    /\ csvToast' = ""
    /\ UNCHANGED notCsv

\* The categories query: on an error the callback throws and nothing more
\* of it runs.
CsvFetchCategories ==
    /\ csvPc = "categories"
    /\ \E categoriesError \in BOOLEAN :
          csvPc' = IF categoriesError THEN "idle" ELSE "rows"
    /\ UNCHANGED <<csvQueue, csvLog, successCount, failedCount, importResults,
                   csvToast>>
    /\ UNCHANGED notCsv

\* One turn of the loop over the rows. A NaN amount is sent as null, which
\* the non-nullable amount column refuses; any other insert may fail too.
CsvProcessRow ==
    /\ csvPc = "rows"
    /\ csvQueue # <<>>
    /\ LET transaction == Head(csvQueue)
           found == CsvFindCategory(transaction.category)
       IN  \E insertError \in BOOLEAN :
             LET category == CHOOSE c \in found : TRUE
                 amount == CsvAmount(transaction.amount, category)
                 inserted == /\ found # {}
                             /\ DateParses(transaction.date)
                             /\ ~amount.nan
                             /\ ~insertError
             IN  /\ csvLog' = Append(csvLog,
                        IF inserted
                        THEN [row |-> transaction, outcome |-> "inserted",
                              amount |-> amount.value,
                              category_id |-> category.id]
                        ELSE [row |-> transaction, outcome |-> "failed",
                              amount |-> 0, category_id |-> ""])
                 /\ successCount' = IF inserted THEN successCount + 1 ELSE successCount
                 /\ failedCount' = IF inserted THEN failedCount ELSE failedCount + 1
    /\ csvQueue' = Tail(csvQueue)
    /\ UNCHANGED <<csvPc, importResults, csvToast>>
    /\ UNCHANGED notCsv

\* After the loop: the results and the toast.
CsvShowResults ==
    /\ csvPc = "rows"
    /\ csvQueue = <<>>
    /\ importResults' = [present |-> TRUE, success |-> successCount,
                         failed |-> failedCount, total |-> Len(csvLog)]
    /\ csvToast' = IF successCount > 0 THEN "Import completed" ELSE "Import failed"
    /\ csvPc' = "done"
    /\ UNCHANGED <<csvQueue, csvLog, successCount, failedCount>>
    /\ UNCHANGED notCsv

CsvNext ==
    \/ CsvSubmit
    \/ CsvFetchCategories
    \/ CsvProcessRow
    \/ CsvShowResults
----------------------------------------------------------------------------
(***************************************************************************)
(* The current-month widgets and budgetGoalService.getBudgetProgress: the  *)
(* date range each of them queries and the spent amount each computes.     *)
(***************************************************************************)
\* ---- JavaScript Date in local time, to the second -------------------------
\* A Date is the number of seconds since the first instant of 2024.
Years == 2023..2026
SecondsPerDay == 86400

IsLeapYear(y) == y % 4 = 0 /\ (y % 100 # 0 \/ y % 400 = 0)
DaysInYear(y) == IF IsLeapYear(y) THEN 366 ELSE 365
DaysInMonth(y, m) ==
    IF m = 1 THEN (IF IsLeapYear(y) THEN 29 ELSE 28)
    ELSE IF m \in {3, 5, 8, 10} THEN 30 ELSE 31

\* Days from the epoch to the first day of year y (negative before it).
RECURSIVE DaysBeforeYear(_)
DaysBeforeYear(y) ==
    IF y = 2024 THEN 0
    ELSE IF y > 2024 THEN DaysBeforeYear(y - 1) + DaysInYear(y - 1)
    ELSE DaysBeforeYear(y + 1) - DaysInYear(y)

\* Days from the first day of year y to the first day of month m (0-based;
\* 12 is the first day of the next year): the running sum of DaysInMonth.
CommonYearOffsets == <<0, 31, 59, 90, 120, 151, 181, 212, 243, 273, 304, 334, 365>>
DaysBeforeMonth(y, m) ==
    CommonYearOffsets[m + 1] + (IF IsLeapYear(y) /\ m >= 2 THEN 1 ELSE 0)

\* new Date(year, monthIndex, day, 0, 0, seconds): a monthIndex of 12 and a
\* day outside the month carry over, as the constructor does.
NewDate(year, monthIndex, day, seconds) ==
    LET y == year + (monthIndex \div 12)
        m == monthIndex % 12
    IN  (DaysBeforeYear(y) + DaysBeforeMonth(y, m) + day - 1) * SecondsPerDay + seconds

DayNumber(date) == date \div SecondsPerDay
SecondsOfDay(date) == date % SecondsPerDay
getFullYear(date) ==
    CHOOSE y \in Years :
        DaysBeforeYear(y) <= DayNumber(date) /\ DayNumber(date) < DaysBeforeYear(y + 1)
DayOfYear(date) == DayNumber(date) - DaysBeforeYear(getFullYear(date))
getMonth(date) ==
    LET y == getFullYear(date)
        dayOfYear == DayNumber(date) - DaysBeforeYear(y)
    IN  CHOOSE m \in 0..11 :
            /\ DaysBeforeMonth(y, m) <= dayOfYear
            /\ dayOfYear < DaysBeforeMonth(y, m + 1)
getDate(date) == DayOfYear(date) - DaysBeforeMonth(getFullYear(date), getMonth(date)) + 1
\* 0 is Sunday; the first day of 2024 is a Monday.
getDay(date) == (DayNumber(date) + 1) % 7
\* date.setDate(day): the same month and time of day.
setDate(date, day) ==
    NewDate(getFullYear(date), getMonth(date), day, SecondsOfDay(date))

\* date-fns startOfMonth / endOfMonth (the last second stands for 23:59:59.999).
startOfMonth(date) == NewDate(getFullYear(date), getMonth(date), 1, 0)
endOfMonth(date) ==
    NewDate(getFullYear(date), getMonth(date), DaysInMonth(getFullYear(date), getMonth(date)),
            SecondsPerDay - 1)

\* ---- the date ranges --------------------------------------------------------
\* new Date(y, m, 1) .. new Date(y, m + 1, 0)
OverviewWindow(date) ==
    [startDate |-> NewDate(getFullYear(date), getMonth(date), 1, 0),
     endDate |-> NewDate(getFullYear(date), getMonth(date) + 1, 0, 0)]
BudgetProgressWindow(date) ==
    [startDate |-> NewDate(getFullYear(date), getMonth(date), 1, 0),
     endDate |-> NewDate(getFullYear(date), getMonth(date) + 1, 0, 0)]
BudgetAlertsWindow(date) ==
    [startDate |-> NewDate(getFullYear(date), getMonth(date), 1, 0),
     endDate |-> NewDate(getFullYear(date), getMonth(date) + 1, 0, 0)]
\* new Date(y, m, 1) .. new Date(y, m + 1, 0, 23, 59, 59)
BudgetSummaryWindow(date) ==
    [startDate |-> NewDate(getFullYear(date), getMonth(date), 1, 0),
     endDate |-> NewDate(getFullYear(date), getMonth(date) + 1, 0, SecondsPerDay - 1)]
BudgetGoalsListWindow(date) ==
    [startDate |-> NewDate(getFullYear(date), getMonth(date), 1, 0),
     endDate |-> NewDate(getFullYear(date), getMonth(date) + 1, 0, SecondsPerDay - 1)]
FinancialSummaryWindow(date) ==
    [startDate |-> startOfMonth(date), endDate |-> endOfMonth(date)]

Periods == {"daily", "weekly", "monthly", "yearly", "absent"}

\* The range of getBudgetProgress for options.period and options.date.
BudgetProgressRange(period, date) ==
    IF period \in {"absent", "monthly"}
    THEN [startDate |-> NewDate(getFullYear(date), getMonth(date), 1, 0),
          endDate |-> NewDate(getFullYear(date), getMonth(date) + 1, 0, 0)]
    ELSE IF period = "yearly"
    THEN [startDate |-> NewDate(getFullYear(date), 0, 1, 0),
          endDate |-> NewDate(getFullYear(date), 11, 31, 0)]
    ELSE IF period = "weekly"
    THEN LET startDate == setDate(date, getDate(date) - getDay(date))
         IN  [startDate |-> startDate,
              endDate |-> setDate(startDate, getDate(startDate) + 6)]
    ELSE [startDate |-> NewDate(getFullYear(date), getMonth(date), getDate(date), 0),
          endDate |-> NewDate(getFullYear(date), getMonth(date), getDate(date),
                              SecondsPerDay - 1)]

\* ---- the data ---------------------------------------------------------------
\* The moments the widgets are opened at and getBudgetProgress is asked about.
Clocks ==
    { NewDate(2024, 1, 15, 9 * 3600),               \* Thu 15 Feb 2024 09:00
      NewDate(2024, 1, 29, 15 * 3600),              \* Thu 29 Feb 2024 15:00
      NewDate(2024, 11, 31, SecondsPerDay - 1),     \* Tue 31 Dec 2024 23:59:59
      NewDate(2025, 2, 2, 0) }                      \* Sun  2 Mar 2025 00:00

\* The one budget goal: monthly, on the expense category c2.
BudgetGoal == [category_id |-> "c2", amount |-> 100, period |-> "monthly"]

LedgerDates ==
    { NewDate(2024, 1, 10, 12 * 3600),              \* 10 Feb 2024 12:00
      NewDate(2024, 1, 29, 15 * 3600),              \* 29 Feb 2024 15:00
      NewDate(2024, 2, 1, 0) }                      \*  1 Mar 2024 00:00

LedgerRows ==
    [amount : {-40, 25}, category_id : {"c2"}, transaction_date : LedgerDates]
        \cup [amount : {500}, category_id : {"c1"},
              transaction_date : {NewDate(2024, 1, 29, 15 * 3600)}]

\* The largest transactions table of the model.
MaxLedger == 2
Ledgers == { l \in SUBSET LedgerRows : Cardinality(l) <= MaxLedger }

CategoryType(id) == (CHOOSE c \in TableCategories : c.id = id).type

\* .gte("transaction_date", startDate).lte("transaction_date", endDate)
InWindow(rows, window) ==
    { tx \in rows : /\ tx.transaction_date >= window.startDate
                    /\ tx.transaction_date <= window.endDate }
\* .eq("category_id", id)
OfCategory(rows, id) == { tx \in rows : tx.category_id = id }

\* reduce((total, tx) => total + f(tx), 0) over a set of rows.
RECURSIVE SumAbs(_)
SumAbs(rows) ==
    IF rows = {} THEN 0
    ELSE LET tx == CHOOSE t \in rows : TRUE
         IN  Abs(tx.amount) + SumAbs(rows \ {tx})

RECURSIVE SumAbsOfNegative(_)
SumAbsOfNegative(rows) ==
    IF rows = {} THEN 0
    ELSE LET tx == CHOOSE t \in rows : TRUE
         IN  Abs(IF tx.amount < 0 THEN tx.amount ELSE 0) + SumAbsOfNegative(rows \ {tx})

\* total + Math.abs(Number(tx.amount))
BudgetProgressSpent(rows) == SumAbs(rows)
BudgetAlertsSpent(rows) == SumAbs(rows)
\* total + Math.abs(tx.amount < 0 ? tx.amount : 0)
BudgetGoalsListSpent(rows) == SumAbsOfNegative(rows)
ServiceSpent(rows) == SumAbsOfNegative(rows)
\* sum + (tx.amount < 0 ? Math.abs(tx.amount) : 0)
BudgetSummarySpent(rows) == SumAbsOfNegative(rows)
\* expenses += Math.abs(amount) for every row not of an income category
OverviewExpenses(rows) == SumAbs({ tx \in rows : CategoryType(tx.category_id) # "income" })
\* expenses += Math.abs(amount) for every row with a non-positive amount
FinancialSummaryExpenses(rows) == SumAbs({ tx \in rows : ~(tx.amount > 0) })

NothingShown ==
    [widget |-> "", period |-> "", date |-> 0, startDate |-> 0, endDate |-> 0,
     counted |-> {}, spent |-> 0]

Shows(widget, period, date, window, rows, spent) ==
    [widget |-> widget, period |-> period, date |-> date,
     startDate |-> window.startDate, endDate |-> window.endDate,
     counted |-> rows, spent |-> spent]

\* Before the pages are opened.
NoClock == -1

BudgetInit ==
    /\ now = NoClock
    /\ ledger = {}
    /\ shown = NothingShown

\* The pages are opened at some moment, over some transactions table.
OpenDashboard ==
    /\ now = NoClock
    /\ now' \in Clocks
    /\ ledger' \in Ledgers
    /\ UNCHANGED shown
    /\ UNCHANGED notBudget

\* Overview.fetchFinancialData
OverviewFetch ==
    /\ now # NoClock
    /\ LET rows == InWindow(ledger, OverviewWindow(now))
       IN  shown' = Shows("Overview", "monthly", now, OverviewWindow(now), rows,
                          OverviewExpenses(rows))
    /\ UNCHANGED <<now, ledger>>
    /\ UNCHANGED notBudget

\* BudgetProgress.fetchBudgetProgress, for the goal
BudgetProgressFetch ==
    /\ now # NoClock
    /\ LET rows == InWindow(OfCategory(ledger, BudgetGoal.category_id),
                            BudgetProgressWindow(now))
       IN  shown' = Shows("BudgetProgress", "monthly", now, BudgetProgressWindow(now),
                          rows, BudgetProgressSpent(rows))
    /\ UNCHANGED <<now, ledger>>
    /\ UNCHANGED notBudget

\* useBudgetAlerts.checkBudgetAlerts, for the goal
BudgetAlertsFetch ==
    /\ now # NoClock
    /\ LET rows == InWindow(OfCategory(ledger, BudgetGoal.category_id),
                            BudgetAlertsWindow(now))
       IN  shown' = Shows("useBudgetAlerts", "monthly", now, BudgetAlertsWindow(now),
                          rows, BudgetAlertsSpent(rows))
    /\ UNCHANGED <<now, ledger>>
    /\ UNCHANGED notBudget

\* BudgetSummary.fetchBudgetSummary: the rows of the expense categories
BudgetSummaryFetch ==
    /\ now # NoClock
    /\ LET expenseCategoryIds == { c.id : c \in { k \in TableCategories : k.type = "expense" } }
           rows == InWindow({ tx \in ledger : tx.category_id \in expenseCategoryIds },
                            BudgetSummaryWindow(now))
       IN  shown' = Shows("BudgetSummary", "monthly", now, BudgetSummaryWindow(now),
                          rows, BudgetSummarySpent(rows))
    /\ UNCHANGED <<now, ledger>>
    /\ UNCHANGED notBudget

\* BudgetGoalsList.fetchBudgetGoals, for the goal
BudgetGoalsListFetch ==
    /\ now # NoClock
    /\ LET rows == InWindow(OfCategory(ledger, BudgetGoal.category_id),
                            BudgetGoalsListWindow(now))
       IN  shown' = Shows("BudgetGoalsList", "monthly", now, BudgetGoalsListWindow(now),
                          rows, BudgetGoalsListSpent(rows))
    /\ UNCHANGED <<now, ledger>>
    /\ UNCHANGED notBudget

\* FinancialSummary.fetchSummary with period "month"
FinancialSummaryFetch ==
    /\ now # NoClock
    /\ LET rows == InWindow(ledger, FinancialSummaryWindow(now))
       IN  shown' = Shows("FinancialSummary", "monthly", now, FinancialSummaryWindow(now),
                          rows, FinancialSummaryExpenses(rows))
    /\ UNCHANGED <<now, ledger>>
    /\ UNCHANGED notBudget

\* budgetGoalService.getBudgetProgress(userId, {period, date}), for the goal;
\* an absent date is new Date().
getBudgetProgress ==
    /\ now # NoClock
    /\ \E period \in Periods, date \in Clocks :
          LET range == BudgetProgressRange(period, date)
              rows == InWindow(OfCategory(ledger, BudgetGoal.category_id), range)
          IN  shown' = Shows("getBudgetProgress", period, date, range, rows,
                             ServiceSpent(rows))
    /\ UNCHANGED <<now, ledger>>
    /\ UNCHANGED notBudget

BudgetNext ==
    \/ OpenDashboard
    \/ OverviewFetch
    \/ BudgetProgressFetch
    \/ BudgetAlertsFetch
    \/ BudgetSummaryFetch
    \/ BudgetGoalsListFetch
    \/ FinancialSummaryFetch
    \/ getBudgetProgress
----------------------------------------------------------------------------
(***************************************************************************)
(* useBudgetAlerts.checkBudgetAlerts                                       *)
(***************************************************************************)
\* new Date() of the run: Thu 15 Feb 2024 09:00.
AlertNow == NewDate(2024, 1, 15, 9 * 3600)
NullDate == -1

\* The largest transactions table of the hook's model.
MaxAlertTxs == 3

\* budget_goals joined with categories(name): two monthly goals of the
\* month, a yearly goal, and a monthly goal that ended in January.
AlertGoals ==
    { [id |-> 1, category_id |-> "c2", name |-> "Housing", amount |-> 200,
       period |-> "monthly", start_date |-> NewDate(2024, 0, 1, 0), end_date |-> NullDate],
      [id |-> 2, category_id |-> "c3", name |-> "Food", amount |-> 50,
       period |-> "monthly", start_date |-> NewDate(2024, 1, 1, 0),
       end_date |-> NewDate(2024, 2, 1, 0)],
      [id |-> 3, category_id |-> "c4", name |-> "Travel", amount |-> 10,
       period |-> "yearly", start_date |-> NewDate(2024, 0, 1, 0), end_date |-> NullDate],
      [id |-> 4, category_id |-> "c5", name |-> "Gifts", amount |-> 10,
       period |-> "monthly", start_date |-> NewDate(2023, 11, 1, 0),
       end_date |-> NewDate(2024, 0, 20, 0)] }

AlertTxRows ==
    [amount : {-159, -20, -1}, category_id : {"c2"},
     transaction_date : {NewDate(2024, 1, 10, 12 * 3600)}]
      \cup [amount : {-40, -5, 30}, category_id : {"c3"},
            transaction_date : {NewDate(2024, 1, 10, 12 * 3600)}]
      \cup [amount : {-10}, category_id : {"c3"},
            transaction_date : {NewDate(2024, 0, 20, 12 * 3600)}]
      \cup [amount : {-10}, category_id : {"c4", "c5"},
            transaction_date : {NewDate(2024, 1, 10, 12 * 3600)}]

\* .eq("period", "monthly").lte("start_date", endOfMonth)
\* .or(`end_date.gt.${startOfMonth},end_date.is.null`)
GoalsQuery(date) ==
    { g \in AlertGoals :
        /\ g.period = "monthly"
        /\ g.start_date <= BudgetAlertsWindow(date).endDate
        /\ (g.end_date = NullDate \/ g.end_date > BudgetAlertsWindow(date).startDate) }

\* The orders a query without an order clause may return rows in.
Orderings(rows) ==
    { q \in [1..Cardinality(rows) -> rows] :
        \A i, j \in 1..Cardinality(rows) : i # j => q[i] # q[j] }

\* The percentage cut to a whole number instead.
RoundDownPercentage(spent, amount) == (100 * spent) \div amount

\* Math.round((spent / Number(goal.amount)) * 100) for a positive goal amount
\* and a non-negative spent: halves round up.
RoundPercentage(spent, amount) == (200 * spent + amount) \div (2 * amount)

\* newAlerts.sort((a, b) => b.percentage - a.percentage): a stable sort.
RECURSIVE InsertByPercentage(_, _)
InsertByPercentage(alert, sorted) ==
    IF sorted = <<>> THEN <<alert>>
    ELSE IF Head(sorted).percentage >= alert.percentage
    THEN <<Head(sorted)>> \o InsertByPercentage(alert, Tail(sorted))
    ELSE <<alert>> \o sorted

RECURSIVE SortByPercentage(_)
SortByPercentage(list) ==
    IF list = <<>> THEN <<>>
    ELSE InsertByPercentage(list[Len(list)],
                            SortByPercentage(SubSeq(list, 1, Len(list) - 1)))

\* The alerts with percentage >= 90, in order: one toast each.
CriticalAlerts(list) == SelectSeq(list, LAMBDA alert : alert.percentage >= 90)

NoRun == [outcome |-> "none", order |-> <<>>, skipped |-> {}, before |-> <<>>]

AlertInit ==
    /\ alertTxs = {}
    /\ alerts = <<>>
    /\ alertPc = "unmounted"
    /\ alertQueue = <<>>
    /\ newAlerts = <<>>
    /\ alertToasts = <<>>
    /\ alertRun = NoRun

\* The hook mounts, over some transactions table.
MountBudgetAlerts ==
    /\ alertPc = "unmounted"
    /\ \E rows \in SUBSET AlertTxRows :
          /\ Cardinality(rows) <= MaxAlertTxs
          /\ alertTxs' = rows
    /\ alertPc' = "idle"
    /\ UNCHANGED <<alerts, alertQueue, newAlerts, alertToasts, alertRun>>
    /\ UNCHANGED notAlert

\* checkBudgetAlerts up to the goals query (on mount, and hourly after
\* the previous run is over).
checkBudgetAlerts ==
    /\ alertPc = "idle"
    /\ alertPc' = "goals"
    /\ newAlerts' = <<>>
    /\ alertToasts' = <<>>
    /\ alertRun' = [outcome |-> "running", order |-> <<>>, skipped |-> {},
                    before |-> alerts]
    /\ UNCHANGED <<alertTxs, alerts, alertQueue>>
    /\ UNCHANGED notAlert

\* The goals query answers: an error is thrown to the catch, which only logs.
GoalsQueryReturns ==
    /\ alertPc = "goals"
    /\ \E goalsError \in BOOLEAN :
          IF goalsError
          THEN /\ alertPc' = "idle"
               /\ alertRun' = [alertRun EXCEPT !.outcome = "goalsFailed"]
               /\ UNCHANGED alertQueue
          ELSE /\ \E goals \in Orderings(GoalsQuery(AlertNow)) :
                     /\ alertQueue' = goals
                     /\ alertRun' = [alertRun EXCEPT !.order = goals]
               /\ alertPc' = "loop"
    /\ UNCHANGED <<alertTxs, alerts, newAlerts, alertToasts>>
    /\ UNCHANGED notAlert

\* One turn of the loop: the goal's transactions query and the alert.
CheckGoal ==
    /\ alertPc = "loop"
    /\ alertQueue # <<>>
    /\ LET goal == Head(alertQueue)
           rows == InWindow(OfCategory(alertTxs, goal.category_id),
                                    BudgetAlertsWindow(AlertNow))
           spent == BudgetAlertsSpent(rows)
           percentage == RoundPercentage(spent, goal.amount)
       IN  \E txError \in BOOLEAN :
             IF txError
             THEN /\ alertRun' = [alertRun EXCEPT !.skipped = @ \cup {goal.id}]
                  /\ UNCHANGED newAlerts
             ELSE /\ newAlerts' =
                        IF percentage >= 80
                        THEN Append(newAlerts,
                                    [categoryName |-> goal.name,
                                     budgetAmount |-> goal.amount,
                                     spentAmount |-> spent,
                                     percentage |-> percentage])
                        ELSE newAlerts
                  /\ UNCHANGED alertRun
    /\ alertQueue' = Tail(alertQueue)
    /\ UNCHANGED <<alertTxs, alerts, alertPc, alertToasts>>
    /\ UNCHANGED notAlert

\* After the loop: sort, toast the critical alerts, setAlerts.
FinishCheck ==
    /\ alertPc = "loop"
    /\ alertQueue = <<>>
    /\ LET sorted == SortByPercentage(newAlerts)
       IN  /\ newAlerts' = sorted
           /\ alertToasts' = CriticalAlerts(sorted)
           /\ alerts' = sorted
    /\ alertPc' = "idle"
    /\ alertRun' = [alertRun EXCEPT !.outcome = "done"]
    /\ UNCHANGED <<alertTxs, alertQueue>>
    /\ UNCHANGED notAlert

AlertNext ==
    \/ MountBudgetAlerts
    \/ checkBudgetAlerts
    \/ GoalsQueryReturns
    \/ CheckGoal
    \/ FinishCheck
----------------------------------------------------------------------------
(***************************************************************************)
(* EnhancedAIInsights.generateInsights: the spending trends by category    *)
(* and the unusual spending. Rows have the relational shape: category_id,  *)
(* and the joined category when there is one.                              *)
(***************************************************************************)
\* trends.slice(0, 5)
TrendsKept == 5

\* category_id of a transaction without a category.
NoCategory == 0

InsightCategories ==
    { [id |-> 1, name |-> "Food"], [id |-> 2, name |-> "Rent"],
      [id |-> 3, name |-> "Fun"], [id |-> 4, name |-> "Travel"],
      [id |-> 5, name |-> "Books"], [id |-> 6, name |-> "Gifts"] }

CurrentRows ==
    { [id |-> 1, amount |-> -120, category_id |-> 1],
      [id |-> 2, amount |-> -60, category_id |-> 1],
      [id |-> 3, amount |-> -500, category_id |-> 2],
      [id |-> 4, amount |-> -80, category_id |-> 3],
      [id |-> 5, amount |-> -200, category_id |-> 4],
      [id |-> 6, amount |-> -55, category_id |-> 5],
      [id |-> 7, amount |-> -70, category_id |-> 6],
      [id |-> 8, amount |-> -90, category_id |-> NoCategory],
      [id |-> 9, amount |-> 1000, category_id |-> 1] }

PreviousRows ==
    { [id |-> 11, amount |-> -100, category_id |-> 1],
      [id |-> 12, amount |-> -500, category_id |-> 2],
      [id |-> 13, amount |-> -40, category_id |-> 3],
      [id |-> 14, amount |-> -90, category_id |-> NoCategory] }

\* The least rows of the current month in a behaviour.
MinCurrentRows == 5

InsightCategoryName(id) == (CHOOSE c \in InsightCategories : c.id = id).name

\* String(categoryId || categoryName), categoryId being category.id of the
\* joined category, and categoryName "Uncategorized" without one.
CurrentKey(transaction) ==
    IF transaction.category_id # NoCategory
    THEN IntToString(transaction.category_id)
    ELSE "Uncategorized"

\* String(category_id || categoryId || (category ? category.id : "uncategorized"))
PreviousKey(transaction) ==
    IF transaction.category_id # NoCategory
    THEN IntToString(transaction.category_id)
    ELSE "uncategorized"

\* The sum of Math.abs(amount) over the rows with amount < 0.
RECURSIVE ExpenseSum(_)
ExpenseSum(rows) ==
    IF rows = {} THEN 0
    ELSE LET tx == CHOOSE t \in rows : TRUE
         IN  (IF tx.amount < 0 THEN Abs(tx.amount) ELSE 0) + ExpenseSum(rows \ {tx})

\* currentCategoryTotals[key].amount and .name; absent keys have amount 0.
CurrentKeys(rows) == { CurrentKey(tx) : tx \in { t \in rows : t.amount < 0 } }
CurrentTotal(rows, key) ==
    ExpenseSum({ tx \in rows : tx.amount < 0 /\ CurrentKey(tx) = key })
CurrentName(rows, key) ==
    LET tx == CHOOSE t \in rows : t.amount < 0 /\ CurrentKey(t) = key
    IN  IF tx.category_id # NoCategory THEN InsightCategoryName(tx.category_id)
        ELSE "Uncategorized"

\* previousCategoryTotals[key] || 0
PreviousTotal(rows, key) ==
    ExpenseSum({ tx \in rows : tx.amount < 0 /\ PreviousKey(tx) = key })

\* Object.entries(currentCategoryTotals): the integer keys ascending, then
\* the other keys.
EntriesOrder == <<"1", "2", "3", "4", "5", "6", "Uncategorized">>
Entries(rows) == SelectSeq(EntriesOrder, LAMBDA key : key \in CurrentKeys(rows))

\* percentChange as the exact fraction num / den, den > 0.
PercentChange(amount, previousAmount) ==
    IF previousAmount > 0
    THEN [num |-> (amount - previousAmount) * 100, den |-> previousAmount]
    ELSE IF amount > 0 THEN [num |-> 100, den |-> 1]
    ELSE [num |-> 0, den |-> 1]

\* Math.abs(a) >= Math.abs(b) for two fractions.
AbsAtLeast(a, b) == Abs(a.num) * b.den >= Abs(b.num) * a.den

\* Math.abs(percentChange) > 10 || data.amount > currentMonthExpenses * 0.15
IsTrend(percentChange, amount, currentMonthExpenses) ==
    \/ Abs(percentChange.num) > 10 * percentChange.den
    \/ amount * 100 > currentMonthExpenses * 15

\* The trends pushed, in the order of the entries.
RECURSIVE TrendsOf(_, _, _)
TrendsOf(keys, current, previous) ==
    IF keys = <<>> THEN <<>>
    ELSE LET id == Head(keys)
             amount == CurrentTotal(current, id)
             percentChange == PercentChange(amount, PreviousTotal(previous, id))
         IN  (IF IsTrend(percentChange, amount, ExpenseSum(current))
              THEN <<[category |-> CurrentName(current, id), amount |-> amount,
                      percentChange |-> percentChange]>>
              ELSE <<>>)
             \o TrendsOf(Tail(keys), current, previous)

\* trends.sort((a, b) => Math.abs(b.percentChange) - Math.abs(a.percentChange)):
\* a stable sort.
RECURSIVE InsertTrend(_, _)
InsertTrend(trend, sorted) ==
    IF sorted = <<>> THEN <<trend>>
    ELSE IF AbsAtLeast(Head(sorted).percentChange, trend.percentChange)
    THEN <<Head(sorted)>> \o InsertTrend(trend, Tail(sorted))
    ELSE <<trend>> \o sorted

RECURSIVE SortTrends(_)
SortTrends(list) ==
    IF list = <<>> THEN <<>>
    ELSE InsertTrend(list[Len(list)], SortTrends(SubSeq(list, 1, Len(list) - 1)))

NoTrend == [category |-> "", amount |-> 0, percentChange |-> [num |-> 0, den |-> 1]]

\* trend.percentChange > 30 && trend.amount > 50
IsUnusual(trend) ==
    trend.percentChange.num > 30 * trend.percentChange.den /\ trend.amount > 50

\* The first unusual trend of the list, or null.
FirstUnusual(list) ==
    LET unusual == SelectSeq(list, IsUnusual)
    IN  IF unusual = <<>> THEN [present |-> FALSE, trend |-> NoTrend]
        ELSE [present |-> TRUE, trend |-> Head(unusual)]

\* trends.slice(0, 5)
FirstTrends(list) == SubSeq(list, 1, IF Len(list) < TrendsKept THEN Len(list) ELSE TrendsKept)

InsightInit ==
    /\ insightPc = "unmounted"
    /\ currentMonth = {}
    /\ previousMonth = {}
    /\ insightTrends = <<>>
    /\ unusualSpending = [present |-> FALSE, trend |-> NoTrend]

\* The component mounts over some transactions of the two months.
MountInsights ==
    /\ insightPc = "unmounted"
    /\ \E current \in SUBSET CurrentRows, previous \in SUBSET PreviousRows :
          /\ Cardinality(current) >= MinCurrentRows
          /\ currentMonth' = current
          /\ previousMonth' = previous
    /\ insightPc' = "mounted"
    /\ UNCHANGED <<insightTrends, unusualSpending>>
    /\ UNCHANGED notInsight

\* generateInsights, on mount and on refresh.
generateInsights ==
    /\ insightPc \in {"mounted", "generated"}
    /\ LET trends == SortTrends(TrendsOf(Entries(currentMonth), currentMonth,
                                         previousMonth))
       IN  /\ unusualSpending' = FirstUnusual(trends)
           /\ insightTrends' = FirstTrends(trends)
    /\ insightPc' = "generated"
    /\ UNCHANGED <<currentMonth, previousMonth>>
    /\ UNCHANGED notInsight

InsightNext ==
    \/ MountInsights
    \/ generateInsights
----------------------------------------------------------------------------
(***************************************************************************)
(* Specifications                                                          *)
(***************************************************************************)
vars == <<authVars, formVars, facadeVars, tableVars, migrationVars, summaryVars,
          prefVars, dialogVars, csvVars, budgetVars, alertVars, insightVars>>

InitAuth == AuthInit /\ FormInit /\ FacadeInit /\ TableInit /\ MigrationInit /\
    SummaryInit /\ PrefInit /\ DialogInit /\ CsvInit /\ BudgetInit /\ AlertInit /\
    InsightInit
SpecAuth == InitAuth /\ [][AuthNext]_vars

InitForm == FormInit /\ AuthInit /\ FacadeInit /\ TableInit /\ MigrationInit /\
    SummaryInit /\ PrefInit /\ DialogInit /\ CsvInit /\ BudgetInit /\ AlertInit /\
    InsightInit
SpecForm == InitForm /\ [][FormNext]_vars

InitFacade == FacadeInit /\ AuthInit /\ FormInit /\ TableInit /\ MigrationInit /\
    SummaryInit /\ PrefInit /\ DialogInit /\ CsvInit /\ BudgetInit /\ AlertInit /\
    InsightInit
SpecFacade == InitFacade /\ [][FacadeNext]_vars

InitTable == TableInit /\ AuthInit /\ FormInit /\ FacadeInit /\ MigrationInit /\
    SummaryInit /\ PrefInit /\ DialogInit /\ CsvInit /\ BudgetInit /\ AlertInit /\
    InsightInit
SpecTable == InitTable /\ [][TableNext]_vars

InitMigration == MigrationInit /\ AuthInit /\ FormInit /\ FacadeInit /\ TableInit /\
    SummaryInit /\ PrefInit /\ DialogInit /\ CsvInit /\ BudgetInit /\ AlertInit /\
    InsightInit
SpecMigration == InitMigration /\ [][MigrationNext]_vars

InitSummary == SummaryInit /\ AuthInit /\ FormInit /\ FacadeInit /\ TableInit /\
    MigrationInit /\ PrefInit /\ DialogInit /\ CsvInit /\ BudgetInit /\ AlertInit /\
    InsightInit
SpecSummary == InitSummary /\ [][SummaryNext]_vars

InitPref == PrefInit /\ AuthInit /\ FormInit /\ FacadeInit /\ TableInit /\ MigrationInit /\
    SummaryInit /\ DialogInit /\ CsvInit /\ BudgetInit /\ AlertInit /\ InsightInit
SpecPref == InitPref /\ [][PrefNext]_vars

InitDialog == DialogInit /\ AuthInit /\ FormInit /\ FacadeInit /\ TableInit /\
    MigrationInit /\ SummaryInit /\ PrefInit /\ CsvInit /\ BudgetInit /\ AlertInit /\
    InsightInit
SpecDialog == InitDialog /\ [][DialogNext]_vars

InitCsv == CsvInit /\ AuthInit /\ FormInit /\ FacadeInit /\ TableInit /\ MigrationInit /\
    SummaryInit /\ PrefInit /\ DialogInit /\ BudgetInit /\ AlertInit /\ InsightInit
SpecCsv == InitCsv /\ [][CsvNext]_vars

InitBudget == BudgetInit /\ AuthInit /\ FormInit /\ FacadeInit /\ TableInit /\
    MigrationInit /\ SummaryInit /\ PrefInit /\ DialogInit /\ CsvInit /\ AlertInit /\
    InsightInit
SpecBudget == InitBudget /\ [][BudgetNext]_vars

InitAlert == AlertInit /\ AuthInit /\ FormInit /\ FacadeInit /\ TableInit /\
    MigrationInit /\ SummaryInit /\ PrefInit /\ DialogInit /\ CsvInit /\ BudgetInit /\
    InsightInit
SpecAlert == InitAlert /\ [][AlertNext]_vars

InitInsight == InsightInit /\ AuthInit /\ FormInit /\ FacadeInit /\ TableInit /\
    MigrationInit /\ SummaryInit /\ PrefInit /\ DialogInit /\ CsvInit /\ BudgetInit /\
    AlertInit
SpecInsight == InitInsight /\ [][InsightNext]_vars

\* The search box alone: keystrokes and the fetches they start.
InitSearch == AuthInit /\ FormInit /\ FacadeInit /\ TableInit /\
    MigrationInit /\ SummaryInit /\ PrefInit /\ DialogInit /\ CsvInit /\ BudgetInit /\ AlertInit /\ InsightInit
SpecSearch == InitSearch /\ [][SearchNext]_vars

\* Every awaited call of a started migration settles.
MigrationFairness ==
    /\ WF_vars(MigrateProfile)
    /\ WF_vars(MigrateCategories)
    /\ WF_vars(MigrateTransactions)
    /\ WF_vars(MigrateBudgetGoals)
    /\ WF_vars(CompleteMigration)
SpecMigrationFair == InitMigration /\ [][MigrationNext]_vars /\ MigrationFairness

----------------------------------------------------------------------------
(***************************************************************************)
(* Claims about the transaction form                                       *)
(***************************************************************************)

\* The string a SelectItem carries for a category: category.id.toString().
IdString(id) == IF id.isNum THEN IntToString(id.n) ELSE id.s

\* C3: a submission that passes validation with a category present in the
\* loaded list creates the transaction in the selected backend and shows the
\* success toast.
C3_SubmissionCreatesTransaction ==
    [][ (databaseType' = databaseType /\ categories' = categories
         /\ fieldErrors' = {} /\ passedOn'.present)
        => /\ toast' = "Transaction added"
           /\ passedOn' \in (IF databaseType = "supabase"
                              THEN sbTransactions' ELSE fsTransactions') ]_vars

\* C5: in every submission that passes validation, a payload is passed on
\* exactly when the selected category id is one of the loaded categories; its
\* amount is negative for an expense category and positive otherwise, whatever
\* sign was typed; when the id is not found nothing is passed on and an error
\* is shown.
C5_SignConvention ==
    [][ (databaseType' = databaseType /\ categories' = categories /\ fieldErrors' = {})
        => LET found == { cat \in categories : IdString(cat.id) = values'.category_id }
           IN  /\ (found = {}) =>
                    (~passedOn'.present /\ error' # "" /\ toast' = "Error")
               /\ (found # {}) =>
                    /\ passedOn'.present
                    /\ \A cat \in found :
                         IF cat.type = "expense"
                         THEN passedOn'.amount < 0
                         ELSE passedOn'.amount > 0 ]_vars

\* C5 witness: a positive amount was typed for an expense category and the
\* payload carries it negated.
C5_Witness ==
    /\ passedOn.present
    /\ values.amount = "5"
    /\ passedOn.amount = -5

\* C6: every amount passed on is non-zero and at most 1,000,000 in absolute
\* value.
C6_AmountRange ==
    passedOn.present =>
        (passedOn.amount # 0 /\ Abs(passedOn.amount) <= 1000000)

----------------------------------------------------------------------------
(***************************************************************************)
(* Claims about the DatabaseProvider facade                                *)
(***************************************************************************)

\* C4: under 'firestore' every facade operation dispatches to an operation the
\* document-store service provides, with the arguments it expects, and
\* getTransactions resolves to a list as it does under 'supabase'.
C4_FacadeBackendIndependent ==
    (call.stage = "settled" /\ call.failure # "noUser" /\ call.db = "firestore"
     /\ call.op # "migrateData")
    => /\ \E m \in FirestoreService[FirestoreDispatch(call.op).service] :
             /\ m.name = FirestoreDispatch(call.op).method
             /\ ArgsMatch(FirestoreDispatch(call.op), m)
       /\ (call.op = "getTransactions" /\ call.failure = "none")
             => call.value = "array"

\* C10 as stated: every operation whose backend call fails shows one
\* destructive toast, is not retried and leaves isLoading false; list reads
\* resolve to [], getFinancialSummary to zeros, single-record reads and
\* create/update/delete reject with the original error.
C10_FailureHandling ==
    (call.stage = "settled" /\ call.failure = "backend")
    => /\ call.toasts = <<"destructive">>
       /\ call.attempts = 1
       /\ ~isLoading
       /\ call.op \in {"getTransactions", "getCategories", "getBudgetGoals"}
             => (call.settled = "resolved" /\ call.value = "emptyArray")
       /\ call.op = "getFinancialSummary"
             => (call.settled = "resolved" /\ call.value = "zeros")
       /\ call.op \notin {"getTransactions", "getCategories", "getBudgetGoals",
                          "getFinancialSummary", "migrateData"}
             => (call.settled = "rejected" /\ call.err = "backendError")

\* C10 amended: as C10 for every operation but migrateData, which raises no
\* toast and resolves to its failure result.
C10_FailureHandlingAmended ==
    (call.stage = "settled" /\ call.failure = "backend")
    => /\ call.attempts = 1
       /\ ~isLoading
       /\ call.op # "migrateData" => call.toasts = <<"destructive">>
       /\ call.op = "migrateData"
             => (call.toasts = <<>> /\ call.settled = "resolved"
                 /\ call.value = "migrationFailed")
       /\ call.op \in {"getTransactions", "getCategories", "getBudgetGoals"}
             => (call.settled = "resolved" /\ call.value = "emptyArray")
       /\ call.op = "getFinancialSummary"
             => (call.settled = "resolved" /\ call.value = "zeros")
       /\ call.op \notin {"getTransactions", "getCategories", "getBudgetGoals",
                          "getFinancialSummary", "migrateData"}
             => (call.settled = "rejected" /\ call.err = "backendError")

\* C10 witness: a failed getTransactions has settled to the empty list.
C10_Witness ==
    /\ call.stage = "settled"
    /\ call.failure = "backend"
    /\ call.op = "getTransactions"
    /\ call.value = "emptyArray"

----------------------------------------------------------------------------
(***************************************************************************)
(* Claims about TransactionsTable                                          *)
(***************************************************************************)

\* The user's transactions that match the server-side filters, ordered by
\* transactionDate descending.
Matching(f) == OrderBy(Where(txDocs, Options(f)))

\* The rows at positions pageSize*(n-1)+1 .. pageSize*n of a list.
PageOfList(rows, n) ==
    SubSeq(rows, pageSize * (n - 1) + 1,
           IF Len(rows) < pageSize * n THEN Len(rows) ELSE pageSize * n)

\* No client-side filter is set.
ServerSideOnly == filters.search = "" /\ filters.amountRange = "all"

\* C7: with data and filters unchanged and no client-side filter, after Next
\* has been pressed k times from page 1, each press after the previous fetch
\* completed, the table shows exactly rows 10k+1 .. 10k+10 of the matching
\* transactions in date-descending order.
C7_ForwardPaginationExact ==
    (forward >= 0 /\ pending = <<>> /\ ServerSideOnly)
    => /\ currentPage = forward + 1
       /\ transactions = PageOfList(Matching(filters), forward + 1)

\* C7 witness: two Next presses from page 1 have shown the third page, which
\* starts past a tie of dates.
C7_Witness ==
    /\ forward = 2
    /\ pending = <<>>
    /\ ServerSideOnly
    /\ Len(transactions) > 0
    /\ transactions[1] = Matching(filters)[2 * pageSize + 1]

\* C8: once the fetch started by the latest Next, Previous, filter change or
\* refresh has completed, the table shows page currentPage of the current
\* result, and currentPage is at least 1 (stated for behaviours in which no
\* backend request has failed and no client-side filter is set).
C8_DisplayedPageIsCurrentPage ==
    /\ currentPage >= 1
    /\ (/\ pending = <<>>
        /\ failures = 0
        /\ completed.ok
        /\ completed.currentPage = currentPage
        /\ completed.filters = filters
        /\ ServerSideOnly)
       => transactions = PageOfList(Matching(filters), currentPage)

----------------------------------------------------------------------------
(***************************************************************************)
(* Claims about DatabaseMigration                                          *)
(***************************************************************************)

\* The relational category a record references.
ReferencedCategory(category_id) == { c \in RelCategories : c.id = category_id }

\* The document's categoryId is the id of a category document that is the
\* migrated copy of the relational category `category_id`.
KeepsCategory(categoryId, category_id) ==
    \E c \in ReferencedCategory(category_id), d \in fsCategories :
        d.docId = categoryId /\ d.name = c.name

\* C9: after startMigration completes with no recorded error, the categoryId
\* of every migrated transaction and budget goal is the document id of the
\* migrated copy of the category the record referenced, default categories
\* included.
C9_RelationshipsPreserved ==
    (migrationResults.present /\ migrationResults.success /\ ~isMigrating)
    => /\ \A t \in fsTxs : \A r \in RelTransactions :
             r.title = t.title => KeepsCategory(t.categoryId, r.category_id)
       /\ \A g \in fsBudgetGoals : \A r \in RelBudgetGoals :
             r.amount = g.amount => KeepsCategory(g.categoryId, r.category_id)

----------------------------------------------------------------------------
(***************************************************************************)
(* Claims about the financial summary                                      *)
(***************************************************************************)

PositivePart(a) == IF a > 0 THEN a ELSE 0
NonPositiveMagnitude(a) == IF a <= 0 THEN Abs(a) ELSE 0

\* The sum over a list of one part of each amount.
RECURSIVE SumOver(_, _)
SumOver(list, part) ==
    IF list = <<>> THEN 0
    ELSE (CASE part = "positive" -> PositivePart(Head(list).amount)
            [] part = "nonPositive" -> NonPositiveMagnitude(Head(list).amount)
            [] OTHER -> Head(list).amount)
         + SumOver(Tail(list), part)

\* C11: both aggregations return the same triple: income the sum of the
\* amounts above zero, expenses the sum of |amount| over the others, balance
\* income - expenses; so income and expenses are never negative and balance is
\* the sum of all amounts.
C11_SummariesAgree ==
    (facadeSummary.present /\ serviceSummary.present)
    => /\ facadeSummary = serviceSummary
       /\ facadeSummary.income = SumOver(summaryTransactions, "positive")
       /\ facadeSummary.expenses = SumOver(summaryTransactions, "nonPositive")
       /\ facadeSummary.balance = facadeSummary.income - facadeSummary.expenses
       /\ facadeSummary.income >= 0
       /\ facadeSummary.expenses >= 0
       /\ facadeSummary.balance = SumOver(summaryTransactions, "all")

\* C11 witness: both summaries computed over a list with income and expenses.
C11_Witness ==
    /\ facadeSummary.present
    /\ serviceSummary.present
    /\ Len(summaryTransactions) = MaxSummaryLen
    /\ serviceSummary.income > 0
    /\ serviceSummary.expenses > 0

----------------------------------------------------------------------------
(***************************************************************************)
(* Claims about the database preference                                    *)
(***************************************************************************)

\* Every render has been committed and every effect has run.
EffectsHaveRun == pendingUpdate = "none" /\ savedFor = databaseType

\* C12: a database the user chose, once the save effect has stored it, is
\* both the databaseType and the stored preference whenever effects have run,
\* also after page reloads; and databaseType is always 'supabase' or
\* 'firestore'.
C12_PreferenceRoundTrip ==
    /\ databaseType \in DatabaseTypes
    /\ (EffectsHaveRun /\ preferred.saved)
          => (databaseType = preferred.value /\ stored = preferred.value)


\* C13: when overlapping fetches have all completed, whatever the order of
\* their responses, the rows displayed and the cursor are those of the fetch
\* started last, the one for the current filters and currentPage (stated for
\* behaviours in which no request failed).
C13_LatestFetchWins ==
    (pending = <<>> /\ failures = 0)
    => \E r \in {fetchTransactions(Closure(currentPage, NoDoc, filters), txDocs)} :
          /\ transactions = r.transactions
          /\ lastDoc = r.lastDoc

----------------------------------------------------------------------------
(***************************************************************************)
(* Claims about EditTransactionDialog                                      *)
(***************************************************************************)

\* The type of a category, as the categories collection has it.
TypeOfCategory(id) == { c.type : c \in { x \in TableCategories : x.id = id } }

\* C14: every amount the dialog writes is negative when the chosen category
\* is an expense category and positive when it is an income category,
\* whatever the state of the dialog's category list; without a transaction
\* id nothing is written.
C14_EditSignConvention ==
    (updated.present /\ updated.list \in {"loaded", "loading", "failed"})
    => /\ updated.id # ""
       /\ "expense" \in TypeOfCategory(updated.categoryId) => updated.amount < 0
       /\ "income" \in TypeOfCategory(updated.categoryId) => updated.amount > 0

----------------------------------------------------------------------------
(***************************************************************************)
(* Claims about CSVImport                                                  *)
(***************************************************************************)
CsvTypeOf(id) == { c.type : c \in { k \in CsvCategories : k.id = id } }

\* C15: every row CSVImport inserts has a non-zero amount, negative when the
\* matched category is an expense and positive when it is an income; a row
\* whose category name matches no category or whose date does not parse is
\* not inserted and is counted as failed.
C15_ImportedRowsSigned ==
    /\ \A i \in 1..Len(csvLog) :
          LET entry == csvLog[i]
          IN  /\ entry.outcome = "inserted" =>
                    /\ entry.amount # 0
                    /\ "expense" \in CsvTypeOf(entry.category_id) => entry.amount < 0
                    /\ "income" \in CsvTypeOf(entry.category_id) => entry.amount > 0
              /\ (CsvFindCategory(entry.row.category) = {} \/ ~DateParses(entry.row.date))
                    => entry.outcome = "failed"
    /\ failedCount = Cardinality({ i \in 1..Len(csvLog) : csvLog[i].outcome = "failed" })

----------------------------------------------------------------------------
(***************************************************************************)
(* Claims about the budget widgets                                         *)
(***************************************************************************)
\* The magnitude of the negative amounts among rows.
RECURSIVE ExpenseMagnitude(_)
ExpenseMagnitude(rows) ==
    IF rows = {} THEN 0
    ELSE LET tx == CHOOSE t \in rows : TRUE
         IN  (IF tx.amount < 0 THEN -tx.amount ELSE 0) + ExpenseMagnitude(rows \ {tx})

\* C16: the spent amount that BudgetProgress, useBudgetAlerts, BudgetGoalsList
\* and getBudgetProgress compute for the goal from the rows their query
\* returned is the sum of the absolute values of the negative amounts only.
C16_SpentAgrees ==
    shown.widget \in {"BudgetProgress", "useBudgetAlerts", "BudgetGoalsList",
                      "getBudgetProgress"}
        => shown.spent = ExpenseMagnitude(shown.counted)

\* The rows dated within the calendar month of date, to the second.
InCalendarMonth(rows, date) ==
    { tx \in rows : /\ getFullYear(tx.transaction_date) = getFullYear(date)
                    /\ getMonth(tx.transaction_date) = getMonth(date) }

\* The rows a widget is about: of the goal's category, of the expense
\* categories, or all.
ScopeOf(widget) ==
    IF widget \in {"BudgetProgress", "useBudgetAlerts", "BudgetGoalsList"}
    THEN OfCategory(ledger, BudgetGoal.category_id)
    ELSE IF widget = "BudgetSummary"
    THEN { tx \in ledger : CategoryType(tx.category_id) = "expense" }
    ELSE ledger

\* C17: Overview, BudgetProgress, useBudgetAlerts, BudgetSummary,
\* BudgetGoalsList and FinancialSummary count every transaction of their
\* scope dated within the current calendar month, the last day included.
C17_SameMonthWindow ==
    shown.widget \in {"Overview", "BudgetProgress", "useBudgetAlerts", "BudgetSummary",
                      "BudgetGoalsList", "FinancialSummary"}
        => shown.counted = InCalendarMonth(ScopeOf(shown.widget), shown.date)

\* The first and the last second of the calendar day, week, month or year of d.
WholePeriod(period, d) ==
    LET y == getFullYear(d)
        m == getMonth(d)
        firstDay ==
            IF period = "daily" THEN DayNumber(d)
            ELSE IF period = "weekly" THEN DayNumber(d) - getDay(d)
            ELSE IF period = "yearly" THEN DaysBeforeYear(y)
            ELSE DaysBeforeYear(y) + DaysBeforeMonth(y, m)
        lastDay ==
            IF period = "daily" THEN DayNumber(d)
            ELSE IF period = "weekly" THEN DayNumber(d) - getDay(d) + 6
            ELSE IF period = "yearly" THEN DaysBeforeYear(y + 1) - 1
            ELSE DaysBeforeYear(y) + DaysBeforeMonth(y, m) + DaysInMonth(y, m) - 1
    IN  [startDate |-> firstDay * SecondsPerDay,
         endDate |-> lastDay * SecondsPerDay + SecondsPerDay - 1]

\* C18: the range of getBudgetProgress contains the reference date-time and
\* is the whole calendar day, week, month or year containing it.
C18_RangeSpansPeriod ==
    shown.widget = "getBudgetProgress"
        => /\ shown.startDate <= shown.date /\ shown.date <= shown.endDate
           /\ shown.startDate = WholePeriod(shown.period, shown.date).startDate
           /\ shown.endDate = WholePeriod(shown.period, shown.date).endDate

----------------------------------------------------------------------------
(***************************************************************************)
(* Claims about useBudgetAlerts                                            *)
(***************************************************************************)
\* The monthly goals in force during the month of the run.
ActiveMonthlyGoals ==
    { g \in AlertGoals :
        /\ g.period = "monthly"
        /\ g.start_date < NewDate(2024, 2, 1, 0)
        /\ (g.end_date = NullDate \/ g.end_date > NewDate(2024, 1, 1, 0)) }

\* What the hook spent-sums for a goal: the magnitudes of the amounts of the
\* rows its transactions query returns.
SpentOf(goal) ==
    BudgetAlertsSpent(InWindow(OfCategory(alertTxs, goal.category_id),
                               BudgetAlertsWindow(AlertNow)))

\* The integer nearest to 100 * spent / amount, halves up.
NearestPercentage(goal) ==
    CHOOSE p \in 0..200 :
        /\ 2 * goal.amount * p <= 200 * SpentOf(goal) + goal.amount
        /\ 200 * SpentOf(goal) + goal.amount < 2 * goal.amount * (p + 1)

ExpectedAlert(goal) ==
    [categoryName |-> goal.name, budgetAmount |-> goal.amount,
     spentAmount |-> SpentOf(goal), percentage |-> NearestPercentage(goal)]

Elements(list) == { list[i] : i \in 1..Len(list) }

----------------------------------------------------------------------------
(***************************************************************************)
(* Claims about the course of startMigration                               *)
(***************************************************************************)
\* The number of entries of list equal to message.
CountOf(message, list) == Cardinality({ i \in 1..Len(list) : list[i] = message })

\* What a finished step must show: its fetch error, or its fetched records
\* split between migrated and per-record write errors.
StepAccounted(fetchError, writeError, migratedCount, fetched) ==
    IF CountOf(fetchError, migrationResults.errors) > 0
    THEN migratedCount = 0 /\ CountOf(writeError, migrationResults.errors) = 0
    ELSE migratedCount + CountOf(writeError, migrationResults.errors) = Cardinality(fetched)

MigrationEndState ==
    /\ isMigrating <=> migrationPc # "idle"
    /\ progress \in {0, 10, 30, 60, 90, 100}
    /\ migrationResults.present =>
          /\ ~isMigrating
          /\ progress = 100
          /\ migrationResults.success <=> Len(migrationResults.errors) = 0
          /\ StepAccounted("Error fetching categories", "Error migrating category",
                           migrationResults.categoriesMigrated,
                           { c \in RelCategories : c.user_id = UserId })
          /\ StepAccounted("Error fetching transactions", "Error migrating transaction",
                           migrationResults.transactionsMigrated,
                           { t \in RelTransactions : t.user_id = UserId })
          /\ StepAccounted("Error fetching budget goals", "Error migrating budget goal",
                           migrationResults.budgetGoalsMigrated,
                           { g \in RelBudgetGoals : g.user_id = UserId })

\* progress never goes down during a run; it returns to 0 only when a run
\* starts.
ProgressStep ==
    \/ progress' >= progress
    \/ progress' = 0 /\ ~isMigrating /\ isMigrating'

----------------------------------------------------------------------------
(***************************************************************************)
(* Claims about repeated migrations                                        *)
(***************************************************************************)
\* The documents of a collection that differ from doc only in their id.
CopiesOf(doc, collection, fields) ==
    { other \in collection : \A f \in fields : other[f] = doc[f] }

\* C21: however often startMigration has run over the same relational data,
\* the document store holds each category, transaction and budget goal once,
\* as it holds the user profile once.
C21_MigrationIdempotent ==
    /\ fsUsers \subseteq {UserId}
    /\ \A d \in fsCategories :
          Cardinality(CopiesOf(d, fsCategories, {"userId", "name"})) = 1
    /\ \A d \in fsTxs :
          Cardinality(CopiesOf(d, fsTxs, {"userId", "title", "categoryId"})) = 1
    /\ \A d \in fsBudgetGoals :
          Cardinality(CopiesOf(d, fsBudgetGoals, {"userId", "amount", "categoryId"})) = 1

----------------------------------------------------------------------------
(***************************************************************************)
(* Claims about the spending insights                                      *)
(***************************************************************************)
\* The name a row's category goes by in the trends.
TrendCategory(tx) ==
    IF tx.category_id = NoCategory THEN "Uncategorized"
    ELSE InsightCategoryName(tx.category_id)

\* The expense total of the category called name among rows.
RECURSIVE CategoryExpenses(_, _)
CategoryExpenses(rows, name) ==
    IF rows = {} THEN 0
    ELSE LET tx == CHOOSE t \in rows : TRUE
         IN  (IF tx.amount < 0 /\ TrendCategory(tx) = name THEN -tx.amount ELSE 0)
             + CategoryExpenses(rows \ {tx}, name)

\* The change of a category from the previous month to the current one.
ExpectedChange(name) ==
    LET current == CategoryExpenses(currentMonth, name)
        previous == CategoryExpenses(previousMonth, name)
    IN  IF previous > 0 THEN [num |-> (current - previous) * 100, den |-> previous]
        ELSE IF current > 0 THEN [num |-> 100, den |-> 1]
        ELSE [num |-> 0, den |-> 1]

\* C22: every trend shown carries its category's current expense total and
\* the change against the previous-month total of that same category,
\* transactions without a category included; the trends are in descending
\* order of |percentChange| and at most 5; unusualSpending is a trend with
\* percentChange > 30 and amount > 50 that no other such trend precedes.
C22_TrendsAgainstSameCategory ==
    insightPc = "generated" =>
        /\ Len(insightTrends) <= TrendsKept
        /\ \A i \in 1..Len(insightTrends) :
              LET trend == insightTrends[i]
              IN  /\ trend.amount = CategoryExpenses(currentMonth, trend.category)
                  /\ trend.percentChange = ExpectedChange(trend.category)
        /\ \A i \in 1..(Len(insightTrends) - 1) :
              AbsAtLeast(insightTrends[i].percentChange, insightTrends[i + 1].percentChange)
        /\ unusualSpending.present =>
              LET unusual == unusualSpending.trend
              IN  /\ unusual.percentChange = ExpectedChange(unusual.category)
                  /\ unusual.amount = CategoryExpenses(currentMonth, unusual.category)
                  /\ unusual.percentChange.num > 30 * unusual.percentChange.den
                  /\ unusual.amount > 50

====
